---- MODULE Spec2Model ----
(***************************************************************************)
(* Polyjuice: an Ethereum-compatible front-end over a UTXO base chain.     *)
(* The module models the key/value index kept by the indexer               *)
(* (storage/indexer.rs), the key layout and account view (storage/mod.rs), *)
(* the loader (storage/loader.rs) and the runner (storage/runner.rs).      *)
(***************************************************************************)
EXTENDS Integers, Sequences, FiniteSets, TLC

VARIABLES
    db,       \* the KV store: a function from the keys present to their values
    chain,    \* the base chain's canonical branch: a sequence of blocks (tx ids)
    txs,      \* base-chain transactions known to the node: id -> body
    pc,       \* the indexer's position in its loop, or "aborted" after an Err
    obs       \* None, or Some(the last result returned to a caller)

vars == <<db, chain, txs, pc, obs>>

(***************************************************************************)
(* Bounds of the model.                                                    *)
(***************************************************************************)
MaxHeight == 2       \* the base chain grows to at most this many blocks
MaxBlockTxs == 2     \* transactions per block
MaxReorg == 1        \* blocks replaced by one reorganisation

\* Option<T>: None, or Some(v)
None == <<>>
Some(v) == <<v>>
Unwrap(o) == o[1]

\* Result<T, E>: Ok(v), or Err(e)
Ok(v) == [ok |-> TRUE, val |-> v]
Err(e) == [ok |-> FALSE, val |-> e]

\* `let x = v; F(x)`: v is computed once
Bind(v, F(_)) == CHOOSE r \in {F(x) : x \in {v}} : TRUE

\* `let x = r?; F(x)`: an Err returns at once
Try(r, F(_)) == Bind(r, LAMBDA x : IF x.ok THEN F(x.val) ELSE x)

Min(a, b) == IF a <= b THEN a ELSE b

Range(s) == {s[i] : i \in DOMAIN s}

RECURSIVE SetToSeq(_)
SetToSeq(S) ==
    IF S = {} THEN <<>>
    ELSE LET x == CHOOSE y \in S : TRUE IN <<x>> \o SetToSeq(S \ {x})

(***************************************************************************)
(* Unsigned integers of 64 and 256 bits.  A number is the little-endian    *)
(* sequence of its base-10000 limbs without leading zero limbs (zero is    *)
(* the empty sequence), so that the widths of the program's integers are    *)
(* kept: 2^64 and 2^256 are beyond the model checker's own integers.        *)
(***************************************************************************)
LimbBase == 10000

RECURSIVE BigNorm(_)
BigNorm(a) ==
    IF a = <<>> THEN <<>>
    ELSE IF a[Len(a)] = 0 THEN BigNorm(SubSeq(a, 1, Len(a) - 1))
    ELSE a

RECURSIVE BigOfNat(_)
BigOfNat(n) ==
    IF n = 0 THEN <<>> ELSE <<n % LimbBase>> \o BigOfNat(n \div LimbBase)

BigLimb(a, i) == IF i <= Len(a) THEN a[i] ELSE 0

RECURSIVE BigAddFrom(_, _, _, _)
BigAddFrom(a, b, i, carry) ==
    IF i > Len(a) /\ i > Len(b)
    THEN (IF carry = 0 THEN <<>> ELSE <<carry>>)
    ELSE LET s == BigLimb(a, i) + BigLimb(b, i) + carry
         IN  <<s % LimbBase>> \o BigAddFrom(a, b, i + 1, s \div LimbBase)

BigAdd(a, b) == BigNorm(BigAddFrom(a, b, 1, 0))

\* a < b
RECURSIVE BigLessFrom(_, _, _)
BigLessFrom(a, b, i) ==
    IF i = 0 THEN FALSE
    ELSE IF a[i] # b[i] THEN a[i] < b[i]
    ELSE BigLessFrom(a, b, i - 1)

BigLess(a, b) ==
    IF Len(a) # Len(b) THEN Len(a) < Len(b) ELSE BigLessFrom(a, b, Len(a))

BigLeq(a, b) == a = b \/ BigLess(a, b)

\* a - b for b <= a
RECURSIVE BigSubFrom(_, _, _, _)
BigSubFrom(a, b, i, borrow) ==
    IF i > Len(a) THEN <<>>
    ELSE LET d == a[i] - BigLimb(b, i) - borrow
         IN  IF d < 0
             THEN <<d + LimbBase>> \o BigSubFrom(a, b, i + 1, 1)
             ELSE <<d>> \o BigSubFrom(a, b, i + 1, 0)

BigSub(a, b) == BigNorm(BigSubFrom(a, b, 1, 0))

\* a * d for one limb d
RECURSIVE BigMulLimbFrom(_, _, _, _)
BigMulLimbFrom(a, d, i, carry) ==
    IF i > Len(a) THEN (IF carry = 0 THEN <<>> ELSE <<carry>>)
    ELSE LET p == a[i] * d + carry
         IN  <<p % LimbBase>> \o BigMulLimbFrom(a, d, i + 1, p \div LimbBase)

RECURSIVE BigMulFrom(_, _, _)
BigMulFrom(a, b, j) ==
    IF j > Len(b) THEN <<>>
    ELSE BigAdd([k \in 1..(j - 1) |-> 0] \o BigMulLimbFrom(a, b[j], 1, 0),
                BigMulFrom(a, b, j + 1))

BigMul(a, b) == BigNorm(BigMulFrom(a, b, 1))

\* floor(a / d) for a small divisor d (0 < d < LimbBase)
RECURSIVE BigDivSmallFrom(_, _, _, _)
BigDivSmallFrom(a, d, i, rem) ==
    IF i = 0 THEN <<>>
    ELSE LET cur == rem * LimbBase + a[i]
         IN  BigDivSmallFrom(a, d, i - 1, cur % d) \o <<cur \div d>>

BigDivSmall(a, d) == BigNorm(BigDivSmallFrom(a, d, Len(a), 0))

\* 2^64 and 2^256, the first values an u64 and an U256 cannot hold
TwoTo64 == <<1616, 955, 737, 6744, 1844>>
TwoTo256 ==
    <<9936, 2963, 9131, 4007, 5758, 394, 564, 6564, 9846, 3269,
      785, 6879, 5008, 7098, 4235, 6195, 3731, 892, 5792, 11>>

FitsU64(a) == BigLess(a, TwoTo64)
FitsU256(a) == BigLess(a, TwoTo256)

(***************************************************************************)
(* Addresses, outpoints and the byte layout of the keys.                   *)
(***************************************************************************)
\* A and B are key holders; K0 and K1 are the addresses of the contracts A
\* creates with nonce 0 and 1.
Addr == {"A", "B", "K0", "K1"}

\* The 20 bytes of an address.
AddrByte(a) ==
    CASE a = "A" -> 170 [] a = "B" -> 187 [] a = "K0" -> 204 [] a = "K1" -> 221

AddrBytes(a) == Bind(AddrByte(a), LAMBDA b : [i \in 1..20 |-> b])

\* u64::to_le_bytes / BytesMut::put_u64_le: n is below 2^31 in the model.
LeBytes(n, k) ==
    [i \in 1..k |-> IF i <= 4 THEN (n \div (256 ^ (i - 1))) % 256 ELSE 0]

Ascii(c) ==
    CASE c = ":" -> 58  [] c = "a" -> 97  [] c = "b" -> 98  [] c = "c" -> 99
      [] c = "d" -> 100 [] c = "e" -> 101 [] c = "h" -> 104 [] c = "k" -> 107
      [] c = "l" -> 108 [] c = "n" -> 110 [] c = "o" -> 111 [] c = "p" -> 112
      [] c = "r" -> 114 [] c = "s" -> 115 [] c = "t" -> 116 [] c = "_" -> 95

BLOCK_KEY == <<"block">>
LOCK_CODE_DEP_KEY == <<"lock_dep">>
CONTRACT_LOCK_CODE_DEP_KEY == <<"contract_lock_dep">>

\* The key builders return the key as a tagged tuple; KeyBytes gives its bytes.
build_eth_key(eth_address, block_number) == <<"e", eth_address, block_number>>
build_out_point_key(out_point) == <<"o", out_point>>
build_block_hash_key(block_number) == <<"b", block_number, "h">>
build_receipt_key(tx_hash) == <<"r", tx_hash>>
build_block_receipt_hashes_key(block_number) == <<"b", block_number, "r">>
build_block_spent_out_points_key(block_number) == <<"b", block_number, "s">>
build_block_added_out_points_key(block_number) == <<"b", block_number, "a">>

\* The bytes of the fixed keys and of the prefixes.
BlockKeyBytes == <<Ascii("b"), Ascii("l"), Ascii("o"), Ascii("c"), Ascii("k")>>
LockDepKeyBytes ==
    <<Ascii("l"), Ascii("o"), Ascii("c"), Ascii("k"), Ascii("_"),
      Ascii("d"), Ascii("e"), Ascii("p")>>
ContractLockDepKeyBytes ==
    <<Ascii("c"), Ascii("o"), Ascii("n"), Ascii("t"), Ascii("r"), Ascii("a"),
      Ascii("c"), Ascii("t"), Ascii("_")>> \o LockDepKeyBytes
Colon == <<Ascii(":")>>
EthPrefix == <<Ascii("e")>> \o Colon
OutPointPrefix == <<Ascii("o")>> \o Colon
ReceiptPrefix == <<Ascii("r")>> \o Colon
BlockPrefix == <<Ascii("b")>> \o Colon

\* The bytes of a key.  The serialized outpoint of an o: key and the hash of
\* an r: key are kept as one opaque element after the two-byte prefix: the
\* store orders them after every e: key and nothing reads them by range.
KeyBytes(k) ==
    CASE k[1] = "block" -> BlockKeyBytes
      [] k[1] = "lock_dep" -> LockDepKeyBytes
      [] k[1] = "contract_lock_dep" -> ContractLockDepKeyBytes
      [] k[1] = "e" ->
            EthPrefix \o AddrBytes(k[2]) \o Colon
            \o (IF k[3] = None THEN <<>> ELSE LeBytes(Unwrap(k[3]), 8))
      [] k[1] = "o" -> Append(OutPointPrefix, k[2])
      [] k[1] = "r" -> Append(ReceiptPrefix, k[2])
      [] k[1] = "b" ->
            BlockPrefix \o LeBytes(k[2], 8) \o <<Ascii(":"), Ascii(k[3])>>

\* Bytewise (memcmp) order of two byte strings, a shorter prefix first.
RECURSIVE BytesLeqFrom(_, _, _)
BytesLeqFrom(s, t, i) ==
    IF i > Len(s) THEN TRUE
    ELSE IF i > Len(t) THEN FALSE
    ELSE IF s[i] # t[i] THEN s[i] < t[i]
    ELSE BytesLeqFrom(s, t, i + 1)

BytesLeq(s, t) ==
    Bind(s, LAMBDA x : Bind(t, LAMBDA y : BytesLeqFrom(x, y, 1)))

starts_with(s, prefix) ==
    Len(prefix) <= Len(s) /\ SubSeq(s, 1, Len(prefix)) = prefix

(***************************************************************************)
(* The KV store (rocksdb::DB) and its atomic write batches.                *)
(***************************************************************************)
Has(d, k) == k \in DOMAIN d

\* DB::get: Some(value) or None
Get(d, k) == IF Has(d, k) THEN Some(d[k]) ELSE None

Put(d, k, v) == [x \in DOMAIN d \cup {k} |-> IF x = k THEN v ELSE d[x]]

Delete(d, k) == [x \in DOMAIN d \ {k} |-> d[x]]

\* The keys of [first, last) in the store's bytewise order.
InRange(k, first, last) ==
    /\ BytesLeq(KeyBytes(first), KeyBytes(k))
    /\ ~BytesLeq(KeyBytes(last), KeyBytes(k))

DeleteRange(d, first, last) ==
    [x \in {k \in DOMAIN d : ~InRange(k, first, last)} |-> d[x]]

ApplyOp(d, op) ==
    CASE op[1] = "put" -> Put(d, op[2], op[3])
      [] op[1] = "delete" -> Delete(d, op[2])
      [] op[1] = "delete_range" -> DeleteRange(d, op[2], op[3])

RECURSIVE ApplyOps(_, _, _)
ApplyOps(d, batch, i) ==
    IF i > Len(batch) THEN d ELSE ApplyOps(ApplyOp(d, batch[i]), batch, i + 1)

\* A write that is not atomic: the store as a reader finds it after the
\* first operation of the batch.
Write_FirstOpOnly(d, batch) == ApplyOps(d, SubSeq(batch, 1, 1), 1)

\* DB::write(batch): every operation of the batch, in order, in one step.
Write(d, batch) == ApplyOps(d, batch, 1)

\* DBRawIterator::seek_for_prev: the last key of the store that is <= key in
\* bytewise order, or None when there is none (the iterator is not valid).
seek_for_prev(d, key) ==
    Bind(KeyBytes(key), LAMBDA target :
    Bind({p \in {<<k, KeyBytes(k)>> : k \in DOMAIN d} :
                BytesLeqFrom(p[2], target, 1)},
         LAMBDA below :
            IF below = {} THEN None
            ELSE Some((CHOOSE p \in below :
                         \A q \in below : BytesLeqFrom(q[2], p[2], 1))[1])))

load_latest_out_points(d, eth_address, block_number) ==
    LET last_key == build_eth_key(eth_address, Some(block_number))
        prefix_key == build_eth_key(eth_address, None)
    IN  Bind(seek_for_prev(d, last_key), LAMBDA key :
            IF /\ key # None
               /\ starts_with(KeyBytes(Unwrap(key)), KeyBytes(prefix_key))
            THEN d[Unwrap(key)]
            ELSE {})


(***************************************************************************)
(* Ethereum transactions (storage/mod.rs).                                 *)
(*                                                                         *)
(* A raw transaction is the signed RLP byte string; the model keeps it as  *)
(* the record of what the bytes decode to.  keccak256 of the raw bytes is   *)
(* the raw value itself (an ideal, collision-free hash).                    *)
(***************************************************************************)
CHAIN_ID == 1

RawTx(nonce, gas_price, gas_limit, to, value, data, from) ==
    [wellformed |-> TRUE, nonce |-> nonce, gas_price |-> gas_price,
     gas_limit |-> gas_limit, to |-> to, value |-> value, data |-> data,
     v |-> 2 * CHAIN_ID + 35, from |-> from]

\* bytes that are no RLP list of nine fields
JunkRaw ==
    [wellformed |-> FALSE, nonce |-> 0, gas_price |-> <<>>, gas_limit |-> <<>>,
     to |-> None, value |-> <<>>, data |-> None, v |-> 0, from |-> "A"]


\* v - (2 * CHAIN_ID + 35) over u64. Below zero the subtraction overflows:
\* a build with overflow checks panics there; a build without them wraps
\* around 2^64 to 2^64 - (2 * CHAIN_ID + 35 - v), which is at least
\* 2^64 - (2 * CHAIN_ID + 35) and so neither 0 nor 1.
calculate_sig_recovery(v, overflow_checks) ==
    IF v < 2 * CHAIN_ID + 35
    THEN (IF overflow_checks
          THEN Err("panic: attempt to subtract with overflow")
          ELSE Err("MalformedData: Invalid recovery"))
    ELSE IF v - (2 * CHAIN_ID + 35) # 0 /\ v - (2 * CHAIN_ID + 35) # 1
    THEN Err("MalformedData: Invalid recovery")
    ELSE Ok(v - (2 * CHAIN_ID + 35))

\* from_raw as the build with or without overflow checks runs it
from_raw_built(raw, overflow_checks) ==
    IF ~raw.wellformed THEN Err("Rlp")
    ELSE IF ~calculate_sig_recovery(raw.v, overflow_checks).ok
    THEN calculate_sig_recovery(raw.v, overflow_checks)
    ELSE Ok(raw)

\* The two builds agree on every v from 2 * CHAIN_ID + 35 on, and no
\* transaction of the handlers' and the indexer's specifications has a
\* smaller one.
from_raw(raw) == from_raw_built(raw, FALSE)

hash(tx) == tx

\* A product that keeps the low 256 bits (for products below 2^257).
fees_Wrapping(tx) ==
    Bind(BigMul(tx.gas_price, tx.gas_limit), LAMBDA f :
        IF FitsU256(f) THEN Ok(f) ELSE Ok(BigSub(f, TwoTo256)))

fees(tx) ==
    Bind(BigMul(tx.gas_price, tx.gas_limit), LAMBDA f :
        IF FitsU256(f) THEN Ok(f)
        ELSE Err("MalformedData: Wei multiplication overflow!"))

(***************************************************************************)
(* The base chain as the RPC client sees it.  A block is the sequence of   *)
(* the ids of its transactions; the hash of the block at height k is the    *)
(* chain up to k (it commits to the parent and to the body).               *)
(***************************************************************************)
CODE_HASH_LOCK == "LOCK"
CODE_HASH_CONTRACT_LOCK == "CONTRACT_LOCK"

\* The length in bytes of one element of a lock's args.
ArgLen(arg) == IF arg \in Addr THEN 20 ELSE IF arg = "long" THEN 21 ELSE 19

Output(code_hash, args, data, capacity) ==
    [capacity |-> capacity, data |-> data,
     lock |-> [code_hash |-> code_hash, args |-> args]]

RECURSIVE Flatten(_)
Flatten(c) == IF c = <<>> THEN <<>> ELSE Head(c) \o Flatten(Tail(c))

HashAt(c, k) == SubSeq(c, 1, k)

\* get_header_by_number(k): the hash of the header, or None
get_header_by_number(k) ==
    IF k >= 1 /\ k <= Len(chain) THEN Some(HashAt(chain, k)) ELSE None

\* get_block_by_number(k)
get_block_by_number(k) ==
    IF k >= 1 /\ k <= Len(chain)
    THEN Some([hash |-> HashAt(chain, k), transactions |-> chain[k]])
    ELSE None

InputsOf(ids) == UNION {Range(txs[ids[i]].inputs) : i \in DOMAIN ids}

\* Transaction t may follow the transactions `before` on one branch: it is not
\* there yet, and each of its inputs exists and is unspent.  Outpoints of
\* transaction 0 are cells the index does not follow.
ValidNext(before, t) ==
    /\ t \notin Range(before)
    /\ \A p \in Range(txs[t].inputs) :
          /\ p \notin InputsOf(before)
          /\ \/ p[1] = 0
             \/ p[1] \in Range(before) /\ p[2] < Len(txs[p[1]].outputs)

RECURSIVE BlocksAfter(_, _)
BlocksAfter(before, n) ==
    IF n = 0 THEN {<<>>}
    ELSE {<<>>} \cup
         UNION {{<<t>> \o rest : rest \in BlocksAfter(before \o <<t>>, n - 1)} :
                    t \in {u \in DOMAIN txs : ValidNext(before, u)}}


(***************************************************************************)
(* The indexer (storage/indexer.rs), one loop iteration at a time.         *)
(***************************************************************************)
\* (block_number, block_hash) of the last processed block
last_processed(d) ==
    IF Has(d, BLOCK_KEY) THEN d[BLOCK_KEY] ELSE <<0, <<>>>>

\* The witness scan of one transaction: acc is [receipts, index, gas, err].
RECURSIVE ScanWitnesses(_, _, _, _, _)
ScanWitnesses(d, t, next_block_number, i, acc) ==
    IF acc.err # None \/ i > Len(txs[t].witnesses) THEN acc
    ELSE LET witness == txs[t].witnesses[i]
             parsed == from_raw(witness[1])
             tx == parsed.val
             gas == BigAdd(acc.gas, fees(tx).val)
             receipt == [transaction_index |-> acc.index,
                         cumulative_gas |-> gas,
                         witness_index |-> i - 1,
                         ckb_transaction_hash |-> t,
                         block_number |-> next_block_number]
         IN  IF Len(witness) # 1 \/ ~parsed.ok
             THEN ScanWitnesses(d, t, next_block_number, i + 1, acc)
             ELSE IF ~fees(tx).ok
             THEN [acc EXCEPT !.err = Some(fees(tx).val)]
             ELSE IF ~FitsU256(gas)
             THEN [acc EXCEPT !.err = Some("MalformedData: Wei addition overflow!")]
             ELSE ScanWitnesses(d, t, next_block_number, i + 1,
                    [acc EXCEPT
                       !.receipts = Put(acc.receipts, hash(tx), receipt),
                       !.index = acc.index + 1,
                       !.gas = gas])

\* diff_cells.entry(a).and_modify(insert into spent).or_insert_with(...)
MarkSpent(diff, a, p) ==
    IF a \in DOMAIN diff
    THEN [diff EXCEPT ![a] = <<diff[a][1] \cup {p}, diff[a][2]>>]
    ELSE Put(diff, a, <<{p}, {}>>)

MarkAdded(diff, a, p) ==
    IF a \in DOMAIN diff
    THEN [diff EXCEPT ![a] = <<diff[a][1], diff[a][2] \cup {p}>>]
    ELSE Put(diff, a, <<{}, {p}>>)

\* "Purge spent cells in inputs": looked up in the committed store
RECURSIVE ScanInputs(_, _, _, _)
ScanInputs(d, t, i, diff) ==
    IF i > Len(txs[t].inputs) THEN diff
    ELSE LET cell_out_point == txs[t].inputs[i]
             owner == Get(d, build_out_point_key(cell_out_point))
         IN  ScanInputs(d, t, i + 1,
                IF owner # None
                THEN MarkSpent(diff, Unwrap(owner), cell_out_point)
                ELSE diff)

IndexedLock_AnyCodeHash(output) ==
    /\ Len(output.lock.args) = 1
    /\ ArgLen(output.lock.args[1]) = 20

IndexedLock(output) ==
    /\ \/ output.lock.code_hash = CODE_HASH_LOCK
       \/ output.lock.code_hash = CODE_HASH_CONTRACT_LOCK
    /\ Len(output.lock.args) = 1
    /\ ArgLen(output.lock.args[1]) = 20

RECURSIVE ScanOutputs(_, _, _)
ScanOutputs(t, i, diff) ==
    IF i > Len(txs[t].outputs) THEN diff
    ELSE LET output == txs[t].outputs[i]
         IN  ScanOutputs(t, i + 1,
                IF IndexedLock(output)
                THEN MarkAdded(diff, output.lock.args[1], <<t, i - 1>>)
                ELSE diff)

\* "Process the block here": acc is [diff, receipts, index, gas, err].
RECURSIVE ScanBlock(_, _, _, _, _)
ScanBlock(d, transactions, next_block_number, j, acc) ==
    IF acc.err # None \/ j > Len(transactions) THEN acc
    ELSE LET t == transactions[j]
             scanned ==
                IF \E o \in Range(txs[t].outputs) :
                        o.lock.code_hash = CODE_HASH_LOCK
                THEN ScanWitnesses(d, t, next_block_number, 1,
                        [receipts |-> acc.receipts, index |-> acc.index,
                         gas |-> acc.gas, err |-> None])
                ELSE [receipts |-> acc.receipts, index |-> acc.index,
                      gas |-> acc.gas, err |-> None]
         IN  ScanBlock(d, transactions, next_block_number, j + 1,
                [diff |-> ScanOutputs(t, 1, ScanInputs(d, t, 1, acc.diff)),
                 receipts |-> scanned.receipts, index |-> scanned.index,
                 gas |-> scanned.gas, err |-> scanned.err])

PutOp(k, v) == <<"put", k, v>>
DeleteOp(k) == <<"delete", k, <<>>>>
DeleteRangeOp(first, last) == <<"delete_range", first, last>>

\* The puts of one touched address when the spent outpoints stay in the
\* snapshot.
AddressOps_KeepSpent(d, eth_address, spent_out_points, added_out_points, block_number, next_block_number) ==
    LET last_out_points == load_latest_out_points(d, eth_address, block_number)
        new_out_points == last_out_points \cup added_out_points
        added == SetToSeq(added_out_points)
    IN  <<PutOp(build_eth_key(eth_address, Some(next_block_number)),
                new_out_points)>>
        \o [i \in 1..Len(added) |->
                PutOp(build_out_point_key(added[i]), eth_address)]

\* The puts of one touched address: its new snapshot and its o: keys.
AddressOps(d, eth_address, spent_out_points, added_out_points, block_number, next_block_number) ==
    LET last_out_points == load_latest_out_points(d, eth_address, block_number)
        new_out_points == (last_out_points \ spent_out_points)
                            \cup added_out_points
        added == SetToSeq(added_out_points)
    IN  <<PutOp(build_eth_key(eth_address, Some(next_block_number)),
                new_out_points)>>
        \o [i \in 1..Len(added) |->
                PutOp(build_out_point_key(added[i]), eth_address)]

RECURSIVE DiffOps(_, _, _, _, _)
DiffOps(d, diff, addrs, block_number, next_block_number) ==
    IF addrs = <<>> THEN <<>>
    ELSE AddressOps(d, Head(addrs), diff[Head(addrs)][1], diff[Head(addrs)][2],
                    block_number, next_block_number)
         \o DiffOps(d, diff, Tail(addrs), block_number, next_block_number)

\* The forward step: the batch that ingests next_block, or the error that
\* ends index().
IngestBatch(d, next_block) ==
    LET block_number == last_processed(d)[1]
        next_block_number == block_number + 1
        scan == ScanBlock(d, next_block.transactions, next_block_number, 1,
                    [diff |-> <<>>, receipts |-> <<>>, index |-> 1,
                     gas |-> <<>>, err |-> None])
        diff_cells == scan.diff
        receipts == scan.receipts
        receipt_hashes == SetToSeq(DOMAIN receipts)
        all_spent_out_points ==
            UNION {diff_cells[a][1] : a \in DOMAIN diff_cells}
        all_added_out_points ==
            UNION {diff_cells[a][2] : a \in DOMAIN diff_cells}
    IN  IF scan.err # None THEN Err(Unwrap(scan.err))
        ELSE Ok(
          <<PutOp(BLOCK_KEY, <<next_block_number, next_block.hash>>),
            PutOp(build_block_hash_key(next_block_number), next_block.hash)>>
          \o DiffOps(d, diff_cells, SetToSeq(DOMAIN diff_cells),
                     block_number, next_block_number)
          \o <<PutOp(build_block_spent_out_points_key(next_block_number),
                     all_spent_out_points),
               PutOp(build_block_added_out_points_key(next_block_number),
                     all_added_out_points)>>
          \o [i \in 1..Len(receipt_hashes) |->
                PutOp(build_receipt_key(receipt_hashes[i]),
                      receipts[receipt_hashes[i]])]
          \o <<PutOp(build_block_receipt_hashes_key(next_block_number),
                     DOMAIN receipts)>>)

\* The revert's deletes of the o: keys of the block's added outpoints.
RevertOutPointOps(added_out_points) ==
    [i \in 1..Len(added_out_points) |->
        DeleteOp(build_out_point_key(added_out_points[i]))]

\* A revert that passes over an added outpoint without its o: key.
RevertBatch_SkipMissing(d) ==
    LET block_number == last_processed(d)[1]
        receipt_hashes_key == build_block_receipt_hashes_key(block_number)
        added_out_points_key == build_block_added_out_points_key(block_number)
        spent_out_points_key == build_block_spent_out_points_key(block_number)
        receipt_hashes == SetToSeq(d[receipt_hashes_key])
        added_out_points == SetToSeq(d[added_out_points_key])
        eth_addresses ==
            SetToSeq({d[build_out_point_key(p)] :
                        p \in {q \in d[added_out_points_key] :
                                    Has(d, build_out_point_key(q))}})
        previous_block_number == block_number - 1
        previous_block_hash_key == build_block_hash_key(previous_block_number)
    IN  IF ~Has(d, receipt_hashes_key)
        THEN Err("MalformedData: Receipt hash key does not exist!")
        ELSE IF ~Has(d, added_out_points_key)
        THEN Err("MalformedData: Added out point key does not exist!")
        ELSE IF block_number > 1 /\ ~Has(d, previous_block_hash_key)
        THEN Err("MalformedData: Previous block hash key does not exist!")
        ELSE Ok(
          <<DeleteOp(receipt_hashes_key)>>
          \o [i \in 1..Len(receipt_hashes) |->
                DeleteOp(build_receipt_key(receipt_hashes[i]))]
          \o <<DeleteOp(added_out_points_key), DeleteOp(spent_out_points_key)>>
          \o RevertOutPointOps(added_out_points)
          \o [i \in 1..Len(eth_addresses) |->
                DeleteRangeOp(
                    build_eth_key(eth_addresses[i], Some(block_number)),
                    build_eth_key(eth_addresses[i], Some(block_number + 1)))]
          \o <<IF block_number > 1
               THEN PutOp(BLOCK_KEY,
                          <<previous_block_number, d[previous_block_hash_key]>>)
               ELSE DeleteOp(BLOCK_KEY)>>)

\* The batch that reverts the last processed block, or MalformedData when a
\* key it needs is missing.
RevertBatch(d) ==
    LET block_number == last_processed(d)[1]
        receipt_hashes_key == build_block_receipt_hashes_key(block_number)
        added_out_points_key == build_block_added_out_points_key(block_number)
        spent_out_points_key == build_block_spent_out_points_key(block_number)
        receipt_hashes == SetToSeq(d[receipt_hashes_key])
        added_out_points == SetToSeq(d[added_out_points_key])
        eth_addresses ==
            SetToSeq({d[build_out_point_key(p)] : p \in d[added_out_points_key]})
        previous_block_number == block_number - 1
        previous_block_hash_key == build_block_hash_key(previous_block_number)
    IN  IF ~Has(d, receipt_hashes_key)
        THEN Err("MalformedData: Receipt hash key does not exist!")
        ELSE IF ~Has(d, added_out_points_key)
        THEN Err("MalformedData: Added out point key does not exist!")
        ELSE IF \E p \in d[added_out_points_key] :
                    ~Has(d, build_out_point_key(p))
        THEN Err("MalformedData: Out point key does not exist!")
        ELSE IF block_number > 1 /\ ~Has(d, previous_block_hash_key)
        THEN Err("MalformedData: Previous block hash key does not exist!")
        ELSE Ok(
          <<DeleteOp(receipt_hashes_key)>>
          \o [i \in 1..Len(receipt_hashes) |->
                DeleteOp(build_receipt_key(receipt_hashes[i]))]
          \o <<DeleteOp(added_out_points_key), DeleteOp(spent_out_points_key)>>
          \o RevertOutPointOps(added_out_points)
          \o [i \in 1..Len(eth_addresses) |->
                DeleteRangeOp(
                    build_eth_key(eth_addresses[i], Some(block_number)),
                    build_eth_key(eth_addresses[i], Some(block_number + 1)))]
          \o <<IF block_number > 1
               THEN PutOp(BLOCK_KEY,
                          <<previous_block_number, d[previous_block_hash_key]>>)
               ELSE DeleteOp(BLOCK_KEY)>>)

\* The fork check at the head of an iteration.
ForkDetected ==
    LET block_number == last_processed(db)[1]
        block_hash == last_processed(db)[2]
        header == get_header_by_number(block_number)
    IN  block_number > 0 /\ header # None /\ Unwrap(header) # block_hash


(***************************************************************************)
(* The node's cell queries, as the loader's RPC client sees them.          *)
(***************************************************************************)
OnChain(t) == t \in Range(Flatten(chain))

CellAt(out_point) == txs[out_point[1]].outputs[out_point[2] + 1]

\* get_live_cell: the status "live", "dead" or "unknown", the cell when live
get_live_cell(out_point) ==
    IF \/ out_point[1] \notin DOMAIN txs
       \/ ~OnChain(out_point[1])
       \/ out_point[2] >= Len(txs[out_point[1]].outputs)
    THEN [status |-> "unknown", cell |-> None]
    ELSE IF out_point \in InputsOf(Flatten(chain))
    THEN [status |-> "dead", cell |-> None]
    ELSE [status |-> "live", cell |-> Some(CellAt(out_point))]

\* the height of the block of the chain that holds transaction t
BlockOf(t) == CHOOSE k \in 1..Len(chain) : t \in Range(chain[k])

\* get_transaction: the transaction with its status and, when it is in a
\* block, the hash of that block; or None
get_transaction(tx_hash) ==
    IF tx_hash \notin DOMAIN txs THEN None
    ELSE Some([transaction |-> txs[tx_hash],
               status |-> IF OnChain(tx_hash) THEN "committed" ELSE "pending",
               block_hash |-> IF OnChain(tx_hash)
                              THEN Some(HashAt(chain, BlockOf(tx_hash)))
                              ELSE None])

(***************************************************************************)
(* The loader (storage/loader.rs) and the account view (storage/mod.rs).   *)
(***************************************************************************)
\* struct EthCell(CellOutput, CellOutPoint)
EthCell(cell, out_point) == <<cell, out_point>>

tip_block_number(d) == last_processed(d)[1]

load_lock_out_point(d) ==
    IF Has(d, LOCK_CODE_DEP_KEY) THEN Ok(d[LOCK_CODE_DEP_KEY])
    ELSE Err("MalformedData: Lock code is not on chain!")

load_contract_lock_out_point(d) ==
    IF Has(d, CONTRACT_LOCK_CODE_DEP_KEY) THEN Ok(d[CONTRACT_LOCK_CODE_DEP_KEY])
    ELSE Err("MalformedData: Contract lock code is not on chain!")

\* A fold that takes a dead cell whether or not load_spent is set.
load_cell_AlwaysSpent(out_point, load_spent) ==
    Bind(get_live_cell(out_point), LAMBDA cell_with_status :
    Bind(get_transaction(out_point[1]), LAMBDA transaction_with_status :
    IF cell_with_status.status = "live" THEN cell_with_status.cell
    ELSE IF /\ cell_with_status.status = "dead"
            /\ transaction_with_status # None
            /\ Unwrap(transaction_with_status).status = "committed"
    THEN Some(CellAt(out_point))
    ELSE None))

\* one step of the fold of load_cells: the cell of a live outpoint, that of
\* a dead one when load_spent and its transaction is committed, else None
load_cell(out_point, load_spent) ==
    Bind(get_live_cell(out_point), LAMBDA cell_with_status :
    Bind(get_transaction(out_point[1]), LAMBDA transaction_with_status :
    IF cell_with_status.status = "live" THEN cell_with_status.cell
    ELSE IF /\ cell_with_status.status = "dead"
            /\ load_spent
            /\ transaction_with_status # None
            /\ Unwrap(transaction_with_status).status = "committed"
    THEN Some(CellAt(out_point))
    ELSE None))

\* Ok(the cells of the outpoints, in order) or Err(InvalidOutPoint)
RECURSIVE load_cells(_, _, _)
load_cells(out_points, load_spent, i) ==
    IF i > Len(out_points) THEN Ok(<<>>)
    ELSE
    Bind(load_cell(out_points[i], load_spent), LAMBDA found :
    IF found = None THEN Err("InvalidOutPoint")
    ELSE
    Try(load_cells(out_points, load_spent, i + 1), LAMBDA rest :
    Ok(<<EthCell(Unwrap(found), out_points[i])>> \o rest)))

IsMainCell(cell) == Len(cell[1].data) > 0
IsFundCell(cell) == ~IsMainCell(cell)

\* An account that takes the first of several main cells.
TooManyMainCells_Never(main_cells) == FALSE

TooManyMainCells(main_cells) == Len(main_cells) > 1

load_account(d, eth_address, block_number, load_spent) ==
    Bind(SetToSeq(load_latest_out_points(d, eth_address, block_number)),
         LAMBDA out_points :
    Try(load_cells(out_points, load_spent, 1), LAMBDA cells :
    Bind(SelectSeq(cells, IsMainCell), LAMBDA main_cells :
    Bind(SelectSeq(cells, IsFundCell), LAMBDA fund_cells :
    IF TooManyMainCells(main_cells)
    THEN Err("MalformedData: Invalid account cells")
    ELSE Ok(Some([main_cell |-> IF main_cells = <<>> THEN None
                                ELSE Some(main_cells[1]),
                  fund_cells |-> fund_cells]))))))

\* CellType::try_from(u8)
CellType_try_from(value) ==
    IF value = 1 THEN Ok("NormalMainCell")
    ELSE IF value = 2 THEN Ok("ContractMainCell")
    ELSE Err("MalformedData: Invalid cell type")

\* An account that is a contract whenever its main cell has data.
contract_account_AnyMainCell(account) ==
    Ok(account.main_cell # None
        /\ Len(Unwrap(account.main_cell)[1].data) > 0)

contract_account(account) ==
    IF account.main_cell # None /\ Len(Unwrap(account.main_cell)[1].data) > 0
    THEN Try(CellType_try_from(Unwrap(account.main_cell)[1].data[1]),
             LAMBDA t : Ok(t = "ContractMainCell"))
    ELSE Ok(FALSE)

RECURSIVE LeNat(_)
LeNat(bytes) ==
    IF bytes = <<>> THEN 0 ELSE Head(bytes) + 256 * LeNat(Tail(bytes))

\* bincode of EthContractData {code, storage}: the length of the code in 8
\* bytes, the code, the number of storage entries in 8 bytes, the entries.
\* One entry (two U256) is kept as one element <<slot, value>>.
serialize_contract_data(contract_data) ==
    LET slots == SetToSeq(DOMAIN contract_data.storage)
    IN  LeBytes(Len(contract_data.code), 8) \o contract_data.code
        \o LeBytes(Len(slots), 8)
        \o [i \in 1..Len(slots) |-> <<slots[i], contract_data.storage[slots[i]]>>]

deserialize_contract_data(bytes) ==
    IF Len(bytes) < 8 THEN Err("Bincode")
    ELSE LET n == LeNat(SubSeq(bytes, 1, 8))
         IN  IF Len(bytes) < 16 + n THEN Err("Bincode")
             ELSE LET code == SubSeq(bytes, 9, 8 + n)
                      m == LeNat(SubSeq(bytes, 9 + n, 16 + n))
                      entries == SubSeq(bytes, 17 + n, Len(bytes))
                  IN  IF Len(entries) < m THEN Err("Bincode")
                      ELSE Ok([code |-> code,
                               storage |->
                                 [k \in {entries[i][1] : i \in 1..m} |->
                                    (CHOOSE e \in Range(entries) : e[1] = k)[2]]])

contract_data(account) ==
    IF account.main_cell # None
    THEN LET data == Unwrap(account.main_cell)[1].data
         IN  deserialize_contract_data(SubSeq(data, 2, Len(data)))
    ELSE Err("MalformedData: Contract must have main cell!")

\* next_nonce: the u64 in bytes 1..9 of the main cell's data, plus one; the
\* slice [1..9] of data of exactly 8 bytes is out of range and panics.
next_nonce(account) ==
    IF account.main_cell # None
    THEN Bind(Unwrap(account.main_cell)[1].data, LAMBDA data :
            IF Len(data) < 8 THEN Err("MalformedData: Invalid main cell")
            ELSE IF Len(data) < 9
            THEN Err("panic: range end index 9 out of range")
            ELSE Ok(LeNat(SubSeq(data, 2, 9)) + 1))
    ELSE Ok(0)

RECURSIVE SumCapacities(_, _, _)
SumCapacities(cells, i, sum) ==
    IF i > Len(cells) THEN Ok(sum)
    ELSE Bind(BigAdd(sum, cells[i][1].capacity), LAMBDA next :
            IF FitsU64(next) THEN SumCapacities(cells, i + 1, next)
            ELSE Err("MalformedData: Capacity overflow"))

\* A total that leaves the main cell's capacity out.
total_capacities_FundOnly(account) ==
    SumCapacities(account.fund_cells, 1, <<>>)

total_capacities(account) ==
    SumCapacities(account.fund_cells, 1,
        IF account.main_cell # None
        THEN Unwrap(account.main_cell)[1].capacity ELSE <<>>)

\* eth_getTransactionCount at a block number
get_transaction_count(d, eth_address, block_number) ==
    Try(load_account(d, eth_address, block_number, TRUE), LAMBDA account :
    IF account = None THEN Ok(0) ELSE next_nonce(Unwrap(account)))

\* Iterator::find: the first of the indexes that match
FirstIndex(S) == CHOOSE i \in S : \A j \in S : i <= j

\* TransactionReceipt::from(basic_receipt, transaction, block_hash); the
\* transaction is given with its hash.
TransactionReceipt_from(basic_receipt, transaction_hash, transaction, block_hash) ==
    IF \/ basic_receipt.witness_index >= Len(transaction.witnesses)
       \/ transaction.witnesses[basic_receipt.witness_index + 1] = <<>>
    THEN Err("panic: index out of bounds")
    ELSE
    Try(from_raw(transaction.witnesses[basic_receipt.witness_index + 1][1]),
        LAMBDA eth_transaction :
    Bind({i \in DOMAIN transaction.outputs :
            transaction.outputs[i].lock.code_hash = CODE_HASH_CONTRACT_LOCK},
         LAMBDA found :
    IF found # {} /\ transaction.outputs[FirstIndex(found)].lock.args = <<>>
    THEN Err("panic: index out of bounds")
    ELSE
    Try(fees(eth_transaction), LAMBDA gas_used :
    Ok([transaction_hash |-> transaction_hash,
        transaction_index |-> basic_receipt.transaction_index,
        block_hash |-> block_hash,
        block_number |-> basic_receipt.block_number,
        from |-> eth_transaction.from,
        to |-> eth_transaction.to,
        cumulative_gas_used |-> basic_receipt.cumulative_gas,
        gas_used |-> gas_used,
        contract_address |->
            IF found = {} THEN None
            ELSE Some(transaction.outputs[FirstIndex(found)].lock.args[1]),
        status |-> 1]))))

\* Ok(None) without an r: entry, for a transaction the node does not have
\* and for one that is in no block; else the receipt
load_receipt(d, tx_hash) ==
    IF ~Has(d, build_receipt_key(tx_hash)) THEN Ok(None)
    ELSE
    Bind(d[build_receipt_key(tx_hash)], LAMBDA basic_receipt :
    Bind(get_transaction(basic_receipt.ckb_transaction_hash),
         LAMBDA transaction :
    IF transaction = None THEN Ok(None)
    ELSE IF Unwrap(transaction).block_hash = None THEN Ok(None)
    ELSE
    Try(TransactionReceipt_from(basic_receipt,
            basic_receipt.ckb_transaction_hash,
            Unwrap(transaction).transaction,
            Unwrap(Unwrap(transaction).block_hash)), LAMBDA receipt :
    Ok(Some(receipt)))))

\* eth_getTransactionReceipt (modules/eth.rs)
get_transaction_receipt(d, tx_hash) == load_receipt(d, tx_hash)

(***************************************************************************)
(* Capacities and wei (storage/mod.rs).                                    *)
(***************************************************************************)
\* 10^10 wei per shannon
SHANNON_TO_WEI == <<0, 0, 100>>

Wei(shannons) == BigMul(shannons, SHANNON_TO_WEI)

\* A conversion that keeps the low 64 bits of the quotient.
wei_to_capacity_Wrapping(w) ==
    Bind(BigDivSmall(SubSeq(w, 3, Len(w)), 100), LAMBDA q :
        IF FitsU64(q) THEN Ok(q) ELSE Ok(BigSub(q, TwoTo64)))

\* floor(w / 10^10), an error when the quotient does not fit 64 bits.  The
\* division is by 10000 twice (two limbs dropped) and then by 100.
wei_to_capacity(w) ==
    Bind(BigDivSmall(SubSeq(w, 3, Len(w)), 100), LAMBDA q :
        IF FitsU64(q) THEN Ok(q)
        ELSE Err("MalformedData: Exceeds maximum range of capacity!"))

\* A multiplication by 10^9.
capacity_in_wei_Gwei(capacities) ==
    Bind(BigMul(capacities, <<0, 0, 10>>), LAMBDA wei :
        IF FitsU256(wei) THEN Ok(wei)
        ELSE Err("MalformedData: Shannon cannot be expressed in wei!"))

\* capacities.checked_mul(&SHANNON_TO_WEI)
capacity_in_wei(capacities) ==
    Bind(BigMul(capacities, SHANNON_TO_WEI), LAMBDA wei :
        IF FitsU256(wei) THEN Ok(wei)
        ELSE Err("MalformedData: Shannon cannot be expressed in wei!"))

total_capacities_in_wei(account) ==
    Try(total_capacities(account), LAMBDA capacities :
        capacity_in_wei(capacities))

\* eth_getBalance (modules/eth.rs)
get_balance(d, eth_address, block_number) ==
    Try(load_account(d, eth_address, block_number, TRUE), LAMBDA account :
    IF account = None THEN Ok(<<>>)
    ELSE total_capacities_in_wei(Unwrap(account)))

\* eth_getStorageAt (modules/eth.rs): the value of the slot, zero for a slot
\* that is not in the contract's storage
get_storage_at(d, eth_address, position, block_number) ==
    Try(load_account(d, eth_address, block_number, TRUE), LAMBDA loaded :
    IF loaded = None THEN Err("MalformedData: Contract does not exist!")
    ELSE
    Bind(Unwrap(loaded), LAMBDA account :
    Try(contract_account(account), LAMBDA is_contract :
    IF ~is_contract
    THEN Err("MalformedData: Specified account is not a contract!")
    ELSE
    Try(contract_data(account), LAMBDA stored :
    Ok(IF position \in DOMAIN stored.storage
       THEN stored.storage[position] ELSE 0)))))

value_in_capacity(tx) == wei_to_capacity(tx.value)

fees_in_capacity(tx) == Try(fees(tx), LAMBDA w : wei_to_capacity(w))

\* The bytes a cell occupies: its capacity field, its data, its lock's code
\* hash and args; one byte costs 10^8 shannons.
OccupiedBytes(cell) ==
    8 + Len(cell.data) + 32
      + (IF cell.lock.args = <<>> THEN 0 ELSE ArgLen(cell.lock.args[1]))

\* A check that lets every target cell pass.
is_lack_of_capacity_Never(cell) == FALSE

is_lack_of_capacity(cell) ==
    BigLess(cell.capacity, BigMul(BigOfNat(OccupiedBytes(cell)), <<0, 0, 1>>))

(***************************************************************************)
(* The runner (storage/runner.rs).  The sender's context (loader, tx,      *)
(* block_number) is passed as d, tx, block_number; evm is what the EVM     *)
(* does with the call: [kind, data, writes].                               *)
(***************************************************************************)
\* data of a NormalMainCell: the cell type, then the nonce in 8 LE bytes
NormalMainData(nonce) == <<1>> \o LeBytes(nonce, 8)

ContractMainData(cd) == <<2>> \o serialize_contract_data(cd)

Script(code_hash, args) == [code_hash |-> code_hash, args |-> args]

\* keccak256(rlp([from, nonce]))[12..]
ContractAddress(from, nonce) == IF nonce = 0 THEN "K0" ELSE "K1"

\* A change that is zero when the account cannot pay.
ChangeCapacity_Saturating(total, fee, value_capacity) ==
    IF BigLess(total, fee) \/ BigLess(BigSub(total, fee), value_capacity)
    THEN Ok(<<>>)
    ELSE Ok(BigSub(BigSub(total, fee), value_capacity))

\* total.safe_sub(fee).and_then(|c| c.safe_sub(value_capacity))
ChangeCapacity(total, fee, value_capacity) ==
    IF BigLess(total, fee) \/ BigLess(BigSub(total, fee), value_capacity)
    THEN Err("MalformedData: Account capacity is not enough!")
    ELSE Ok(BigSub(BigSub(total, fee), value_capacity))

\* Inputs with the main cell pushed after the fund cells.
BuildInputs_MainLast(account) ==
    [i \in 1..Len(account.fund_cells) |-> account.fund_cells[i][2]]
    \o (IF account.main_cell # None
        THEN <<Unwrap(account.main_cell)[2]>> ELSE <<>>)

\* The inputs of the built transaction: the account's fund cells, the main
\* cell inserted in front of them when there is one.
BuildInputs(account) ==
    (IF account.main_cell # None
     THEN <<Unwrap(account.main_cell)[2]>> ELSE <<>>)
    \o [i \in 1..Len(account.fund_cells) |-> account.fund_cells[i][2]]

\* The witnesses: one empty placeholder per input, the first overwritten
\* with [tx.raw].
BuildWitnesses(inputs, raw) ==
    [i \in 1..Len(inputs) |-> IF i = 1 THEN <<raw>> ELSE <<>>]

build_ckb_transaction(d, tx, block_number, data, lock, spare_capacity) ==
    Try(load_account(d, tx.from, block_number, FALSE), LAMBDA loaded :
    IF loaded = None THEN Err("MalformedData: Account does not exist yet!")
    ELSE
    Bind(Unwrap(loaded), LAMBDA account :
    Try(value_in_capacity(tx), LAMBDA value_capacity :
    Bind(BigAdd(value_capacity, spare_capacity), LAMBDA target_capacity :
    IF ~FitsU64(target_capacity)
    THEN Err("MalformedData: Capacity addition overflow")
    ELSE
    Bind([capacity |-> target_capacity, data |-> data, lock |-> lock],
         LAMBDA target_cell :
    IF is_lack_of_capacity(target_cell)
    THEN Err("MalformedData: Capacity is not enough!")
    ELSE
    Try(total_capacities(account), LAMBDA total :
    Try(fees_in_capacity(tx), LAMBDA fee :
    Try(ChangeCapacity(total, fee, value_capacity), LAMBDA change_capacity :
    IF account.main_cell = None /\ account.fund_cells = <<>>
    THEN Err("panic: index out of bounds")
    ELSE
    Bind(IF account.main_cell # None
         THEN Unwrap(account.main_cell)[1].lock
         ELSE account.fund_cells[1][1].lock, LAMBDA original_lock :
    Try(load_lock_out_point(d), LAMBDA lock_out_point :
    Try(load_contract_lock_out_point(d), LAMBDA contract_lock_out_point :
    Bind(BuildInputs(account), LAMBDA inputs :
    Ok([deps |-> <<lock_out_point, contract_lock_out_point>>,
        inputs |-> inputs,
        outputs |-> <<[capacity |-> change_capacity,
                       data |-> NormalMainData(tx.nonce),
                       lock |-> original_lock],
                      target_cell>>,
        witnesses |-> BuildWitnesses(inputs, tx)])))))))))))))

send_to_normal_account(d, tx, block_number) ==
    build_ckb_transaction(d, tx, block_number, <<>>,
        Script(CODE_HASH_LOCK, <<Unwrap(tx.to)>>), <<>>)

\* An execution whose returned state is applied whatever apply_state says.
call_evm_ApplyReverted(tx, contract_data_in, evm) ==
    Try(fees(tx), LAMBDA gas :
    IF evm.kind = "trap" THEN Err("EVM: Trap is not yet supported")
    ELSE IF evm.kind = "error" THEN Err("EVM: vm error")
    ELSE
    Bind([code |-> contract_data_in.code,
          storage |->
            [k \in DOMAIN contract_data_in.storage \cup DOMAIN evm.writes |->
                IF k \in DOMAIN evm.writes THEN evm.writes[k]
                ELSE contract_data_in.storage[k]]], LAMBDA applied :
    Ok([return_data |-> IF evm.kind \in {"return", "revert"}
                        THEN Some(evm.data) ELSE None,
        contract_data |-> applied])))

\* Ok([return_data, contract_data]) or the EVM's error; the writes of an
\* execution that fails are lost with it.
call_evm(tx, contract_data_in, evm) ==
    Try(fees(tx), LAMBDA gas :
    IF evm.kind = "trap" THEN Err("EVM: Trap is not yet supported")
    ELSE IF evm.kind = "error" THEN Err("EVM: vm error")
    ELSE IF evm.kind = "revert" THEN Err("EVM: Reverted!")
    ELSE
    Bind([code |-> contract_data_in.code,
          storage |->
            [k \in DOMAIN contract_data_in.storage \cup DOMAIN evm.writes |->
                IF k \in DOMAIN evm.writes THEN evm.writes[k]
                ELSE contract_data_in.storage[k]]], LAMBDA applied :
    Ok([return_data |-> IF evm.kind = "return" THEN Some(evm.data) ELSE None,
        contract_data |-> applied])))

\* A contract call that leaves the callee's prior main cell out of the inputs.
call_contract_NoCalleeInput(d, tx, block_number, account, evm) ==
    Try(contract_data(account), LAMBDA stored :
    Try(call_evm(tx, stored, evm), LAMBDA called :
    build_ckb_transaction(d, tx, block_number,
        ContractMainData(called.contract_data),
        Script(CODE_HASH_CONTRACT_LOCK, <<Unwrap(tx.to)>>),
        Unwrap(account.main_cell)[1].capacity)))

\* A contract call whose new cell keeps the callee's stored data.
call_contract_StoredData(d, tx, block_number, account, evm) ==
    Try(contract_data(account), LAMBDA stored :
    Try(call_evm(tx, stored, evm), LAMBDA called :
    Bind(Unwrap(account.main_cell), LAMBDA main_cell :
    Try(build_ckb_transaction(d, tx, block_number,
            ContractMainData(stored),
            Script(CODE_HASH_CONTRACT_LOCK, <<Unwrap(tx.to)>>),
            main_cell[1].capacity), LAMBDA ckb_transaction :
    Ok([ckb_transaction EXCEPT
            !.inputs = Append(ckb_transaction.inputs, main_cell[2]),
            !.witnesses = Append(ckb_transaction.witnesses, <<>>)])))))

call_contract(d, tx, block_number, account, evm) ==
    Try(contract_data(account), LAMBDA stored :
    Try(call_evm(tx, stored, evm), LAMBDA called :
    Bind(Unwrap(account.main_cell), LAMBDA main_cell :
    Try(build_ckb_transaction(d, tx, block_number,
            ContractMainData(called.contract_data),
            Script(CODE_HASH_CONTRACT_LOCK, <<Unwrap(tx.to)>>),
            main_cell[1].capacity), LAMBDA ckb_transaction :
    Ok([ckb_transaction EXCEPT
            !.inputs = Append(ckb_transaction.inputs, main_cell[2]),
            !.witnesses = Append(ckb_transaction.witnesses, <<>>)])))))

\* A creation that deploys empty code when the initializer returns nothing.
create_contract_EmptyCode(d, tx, block_number, evm) ==
    IF tx.data = None
    THEN Err("MalformedData: Contract creation transaction is missing data!")
    ELSE
    Try(call_evm(tx, [code |-> Unwrap(tx.data), storage |-> <<>>], evm),
        LAMBDA called :
    build_ckb_transaction(d, tx, block_number,
        ContractMainData([code |-> IF called.return_data = None THEN <<>>
                                   ELSE Unwrap(called.return_data),
                          storage |-> called.contract_data.storage]),
        Script(CODE_HASH_CONTRACT_LOCK,
               <<ContractAddress(tx.from, tx.nonce)>>),
        <<>>))

create_contract(d, tx, block_number, evm) ==
    IF tx.data = None
    THEN Err("MalformedData: Contract creation transaction is missing data!")
    ELSE
    Try(call_evm(tx, [code |-> Unwrap(tx.data), storage |-> <<>>], evm),
        LAMBDA called :
    IF called.return_data = None
    THEN Err("MalformedData: Initializer is missing return data")
    ELSE
    build_ckb_transaction(d, tx, block_number,
        ContractMainData([code |-> Unwrap(called.return_data),
                          storage |-> called.contract_data.storage]),
        Script(CODE_HASH_CONTRACT_LOCK,
               <<ContractAddress(tx.from, tx.nonce)>>),
        <<>>))

\* Which of its three callees run() reaches for the loaded account `to`.
RunCase(to) ==
    IF ~contract_account(to).ok THEN "error"
    ELSE IF contract_account(to).val THEN "call_contract"
    ELSE "send_to_normal_account"

\* [case: the callee reached, or "error"; result: what run() returns]
run(d, tx, block_number, evm) ==
    IF tx.to = None
    THEN [case |-> "create_contract",
          result |-> create_contract(d, tx, block_number, evm)]
    ELSE
    Bind(load_account(d, Unwrap(tx.to), block_number, FALSE), LAMBDA loaded :
    IF ~loaded.ok THEN [case |-> "error", result |-> loaded]
    ELSE IF loaded.val = None
    THEN [case |-> "error",
          result |-> Err("MalformedData: Contract does not exist yet!")]
    ELSE
    Bind(Unwrap(loaded.val), LAMBDA to :
    Bind(RunCase(to), LAMBDA case :
    [case |-> case,
     result |->
        CASE case = "call_contract" ->
                call_contract(d, tx, block_number, to, evm)
          [] case = "send_to_normal_account" ->
                send_to_normal_account(d, tx, block_number)
          [] OTHER -> contract_account(to)])))

(***************************************************************************)
(* The indexer's specification: the base chain grows and reorganises, the  *)
(* indexer follows it.                                                     *)
(***************************************************************************)
E1 == RawTx(0, <<1>>, BigOfNat(21000), Some("B"), Wei(BigOfNat(50)), None, "A")

\* The transactions the base chain may include, by id: 1 funds A, 2 is A's
\* transfer to B carrying E1, 3 spends A's cell to a lock the index ignores.
IndexTxs ==
    <<[inputs |-> <<<<0, 0>>>>,
       outputs |-> <<Output(CODE_HASH_LOCK, <<"A">>, <<>>, BigOfNat(1000))>>,
       witnesses |-> <<<<>>>>, deps |-> <<>>],
      [inputs |-> <<<<1, 0>>>>,
       outputs |-> <<Output(CODE_HASH_LOCK, <<"A">>, NormalMainData(0),
                            BigOfNat(950)),
                     Output(CODE_HASH_LOCK, <<"B">>, <<>>, BigOfNat(50))>>,
       witnesses |-> <<<<E1>>>>, deps |-> <<>>],
      [inputs |-> <<<<1, 0>>>>,
       outputs |-> <<Output("OTHER", <<"A">>, <<>>, BigOfNat(900)),
                     Output(CODE_HASH_LOCK, <<"short">>, <<>>, BigOfNat(100))>>,
       witnesses |-> <<<<JunkRaw>>>>, deps |-> <<>>]>>

\* The store after Loader::new has accepted it: the two lock deps, no block.
EmptyDb ==
    Put(Put(<<>>, LOCK_CODE_DEP_KEY, <<0, 1>>),
        CONTRACT_LOCK_CODE_DEP_KEY, <<0, 2>>)

Init ==
    /\ db = EmptyDb
    /\ chain = <<>>
    /\ txs = IndexTxs
    /\ pc = "check"
    /\ obs = <<>>

\* The base chain gets one more block of valid transactions.
MineUpTo(max_height, max_txs) ==
    /\ Len(chain) < max_height
    /\ \E b \in BlocksAfter(Flatten(chain), max_txs) :
            chain' = Append(chain, b)
    /\ UNCHANGED <<db, txs, pc, obs>>

Mine == MineUpTo(MaxHeight, MaxBlockTxs)

\* Every way to continue `prefix` by n blocks.
RECURSIVE Branches(_, _)
Branches(prefix, n) ==
    IF n = 0 THEN {<<>>}
    ELSE UNION {{<<b>> \o rest : rest \in Branches(Append(prefix, b), n - 1)} :
                    b \in BlocksAfter(Flatten(prefix), MaxBlockTxs)}

\* The base chain switches to another branch of the same length that leaves
\* the old one k blocks below the tip.
Reorg ==
    /\ \E k \in 1..Min(Len(chain), MaxReorg) :
         LET keep == SubSeq(chain, 1, Len(chain) - k)
         IN  \E branch \in Branches(keep, k) :
                /\ branch[1] # chain[Len(chain) - k + 1]
                /\ chain' = keep \o branch
    /\ UNCHANGED <<db, txs, pc, obs>>

\* The fork check finds the tip on another branch: revert it in one batch.
IndexerRevert ==
    /\ pc = "check"
    /\ ForkDetected
    /\ RevertBatch(db).ok
    /\ db' = Write(db, RevertBatch(db).val)
    /\ UNCHANGED <<chain, txs, pc, obs>>

\* The fork check passes: go on to fetch the next block.
IndexerCheckOk ==
    /\ pc = "check"
    /\ ~ForkDetected
    /\ pc' = "fetch"
    /\ UNCHANGED <<db, chain, txs, obs>>

\* The next block is there: ingest it in one batch.
IndexerIngest ==
    /\ pc = "fetch"
    /\ LET next_block == get_block_by_number(last_processed(db)[1] + 1)
       IN  /\ next_block # None
           /\ IngestBatch(db, Unwrap(next_block)).ok
           /\ db' = Write(db, IngestBatch(db, Unwrap(next_block)).val)
    /\ pc' = "check"
    /\ UNCHANGED <<chain, txs, obs>>

\* No new block yet: sleep, then start over.
IndexerSleep ==
    /\ pc = "fetch"
    /\ get_block_by_number(last_processed(db)[1] + 1) = None
    /\ pc' = "check"
    /\ UNCHANGED <<db, chain, txs, obs>>

\* What the iteration's batch would be: Ok(batch) or the error of a `?`.
IterationBatch ==
    LET next_block == get_block_by_number(last_processed(db)[1] + 1)
    IN  IF pc = "check"
        THEN (IF ForkDetected THEN RevertBatch(db) ELSE Ok(<<>>))
        ELSE (IF next_block = None THEN Ok(<<>>)
              ELSE IngestBatch(db, Unwrap(next_block)))

\* A `?` of the iteration returns Err: index() returns, nothing is written
\* and the indexer thread ends.
IndexerAbort ==
    /\ pc \in {"check", "fetch"}
    /\ ~IterationBatch.ok
    /\ pc' = "aborted"
    /\ obs' = Some(IterationBatch)
    /\ UNCHANGED <<db, chain, txs>>

Next ==
    \/ Mine
    \/ Reorg
    \/ IndexerRevert
    \/ IndexerCheckOk
    \/ IndexerIngest
    \/ IndexerSleep
    \/ IndexerAbort

Spec == Init /\ [][Next]_vars


(***************************************************************************)
(* Views of the store used to state the properties.                        *)
(***************************************************************************)
Height(d) == last_processed(d)[1]

Max(S) == CHOOSE x \in S : \A y \in S : y <= x

\* the heights at which address a has an e: entry
EthHeights(d, a) ==
    {Unwrap(k[3]) : k \in {x \in DOMAIN d : x[1] = "e" /\ x[2] = a}}

\* the outpoints with an o: key, the hashes with an r: key
OutPointKeys(d) == {k[2] : k \in {x \in DOMAIN d : x[1] = "o"}}
ReceiptKeys(d) == {k[2] : k \in {x \in DOMAIN d : x[1] = "r"}}

\* the heights with a b:<k>:h key
HashHeights(d) == {k[2] : k \in {x \in DOMAIN d : x[1] = "b" /\ x[3] = "h"}}

\* The snapshot of a at H by the layout's definition: the entry of the
\* numerically greatest height <= H, empty when there is none.
LatestSnapshot(d, a, H) ==
    LET hs == {h \in EthHeights(d, a) : h <= H}
    IN  IF hs = {} THEN {} ELSE d[build_eth_key(a, Some(Max(hs)))]

LiveOutPoints(d) == UNION {LatestSnapshot(d, a, Height(d)) : a \in Addr}

\* the transactions of the block indexed at height k (its hash names them)
IndexedBody(d, k) == d[build_block_hash_key(k)][k]

(***************************************************************************)
(* C1: after every batch, o:<p> exists iff p is in the latest snapshot of  *)
(* some address at block.height; an outpoint spent by an ingested block    *)
(* has no o: key any more.                                                 *)
(***************************************************************************)
C1_OutPointKeyIffLive == OutPointKeys(db) = LiveOutPoints(db)

(***************************************************************************)
(* C2: after every batch, block.height is the largest height with a        *)
(* b:<k>:h key (0 when there is none): a revert of H leaves no b:<H>:h.    *)
(***************************************************************************)
C2_TipIsLargestHashKey == Height(db) = Max(HashHeights(db) \cup {0})

(***************************************************************************)
(* C3: after every batch, no address has an e: entry above block.height:   *)
(* a revert of H removes every e:*:<H> entry, of addresses with added and  *)
(* of addresses with only spent outpoints.                                 *)
(***************************************************************************)
C3_NoSnapshotAboveTip ==
    \A a \in Addr : \A h \in EthHeights(db, a) : h <= Height(db)

(***************************************************************************)
(* C4: from every store the indexer reaches, ingesting B, reverting it and *)
(* ingesting B' gives the store that ingesting B' directly gives.          *)
(***************************************************************************)
BlockOn(d, body) ==
    [hash |-> Append(last_processed(d)[2], body), transactions |-> body]

IngestOf(d, body) == Write(d, IngestBatch(d, BlockOn(d, body)).val)

RevertOf(d) == Write(d, RevertBatch(d).val)

NextBodies(d) == BlocksAfter(Flatten(last_processed(d)[2]), MaxBlockTxs)

C4_RevertThenReingest ==
    \A B \in NextBodies(db) : \A B2 \in NextBodies(db) \ {B} :
        IngestOf(RevertOf(IngestOf(db, B)), B2) = IngestOf(db, B2)


(***************************************************************************)
(* C5: reorg handling.  When the fork check finds another hash at the tip  *)
(* height H, the indexer's step is the revert of H (block becomes          *)
(* (H-1, b:<H-1>:h), or is deleted when H = 1); the ingest that follows    *)
(* sets block to (H, hash of the block the chain then has at H); and no    *)
(* r: or o: key of a reverted block remains: every o: key is an outpoint   *)
(* of a transaction of a block indexed at a height <= block.height, every  *)
(* r: key a witness of such a transaction.                                 *)
(***************************************************************************)
NoStaleKeys(d) ==
    /\ \A p \in OutPointKeys(d) :
          \E k \in 1..Height(d) :
             Has(d, build_block_hash_key(k)) /\ p[1] \in Range(IndexedBody(d, k))
    /\ \A h \in ReceiptKeys(d) :
          LET r == d[build_receipt_key(h)]
          IN  /\ r.block_number \in 1..Height(d)
              /\ r.ckb_transaction_hash
                    \in Range(IndexedBody(d, r.block_number))
              /\ txs[r.ckb_transaction_hash].witnesses[r.witness_index + 1]
                    = <<h>>

IndexerStep == pc' # pc \/ db' # db

C5_ReorgHandling ==
    [][/\ (pc = "check" /\ ForkDetected /\ IndexerStep) =>
            /\ pc' = "check"
            /\ Height(db') = Height(db) - 1
            /\ IF Height(db) > 1
               THEN db'[BLOCK_KEY] =
                      <<Height(db) - 1, db[build_block_hash_key(Height(db) - 1)]>>
               ELSE ~Has(db', BLOCK_KEY)
       /\ (pc = "fetch" /\ db' # db) =>
            /\ Height(db) < Len(chain)
            /\ db'[BLOCK_KEY] =
                  <<Height(db) + 1, HashAt(chain, Height(db) + 1)>>
       /\ NoStaleKeys(db')]_vars

(***************************************************************************)
(* C7: every indexer step changes the store in one atomic batch.  Every    *)
(* change of the store a reader can meet is a whole ingest (block and      *)
(* b:<H>:h, b:<H>:r, b:<H>:a, b:<H>:s, the o: and e: keys of the added     *)
(* outpoints and the r: keys of the receipts all written) or a whole       *)
(* revert (block restored and the b:<H>:r/a/s, o: and r: keys of the       *)
(* reverted block all gone); block and the summaries always agree.         *)
(***************************************************************************)
SummaryHeights(d, kind) ==
    {k[2] : k \in {x \in DOMAIN d : x[1] = "b" /\ x[3] = kind}}

TipConsistent(d) ==
    /\ Has(d, BLOCK_KEY) =>
          /\ Height(d) >= 1
          /\ Has(d, build_block_hash_key(Height(d)))
          /\ d[build_block_hash_key(Height(d))] = last_processed(d)[2]
    /\ \A kind \in {"r", "a", "s"} : SummaryHeights(d, kind) = 1..Height(d)

WholeIngest(d, e) ==
    LET H == Height(e)
    IN  /\ H = Height(d) + 1
        /\ TipConsistent(e)
        /\ \A p \in e[build_block_added_out_points_key(H)] :
              /\ Has(e, build_out_point_key(p))
              /\ Has(e, build_eth_key(e[build_out_point_key(p)], Some(H)))
        /\ \A h \in e[build_block_receipt_hashes_key(H)] :
              /\ Has(e, build_receipt_key(h))
              /\ e[build_receipt_key(h)].block_number = H

WholeRevert(d, e) ==
    LET H == Height(d)
    IN  /\ Height(e) = H - 1
        /\ TipConsistent(e)
        /\ H > 1 => e[BLOCK_KEY] = <<H - 1, d[build_block_hash_key(H - 1)]>>
        /\ \A p \in d[build_block_added_out_points_key(H)] :
              ~Has(e, build_out_point_key(p))
        /\ \A h \in d[build_block_receipt_hashes_key(H)] :
              ~Has(e, build_receipt_key(h))

C7_BatchAtomic ==
    [][db' # db => (WholeIngest(db, db') \/ WholeRevert(db, db'))]_vars

\* the store between the revert of block 2 and the next ingest
C7_Witness ==
    /\ pc = "fetch"
    /\ Height(db) = 1
    /\ Has(db, build_block_hash_key(2))
    /\ Len(chain) = 2
    /\ db[build_block_hash_key(2)] # HashAt(chain, 2)

(***************************************************************************)
(* load_latest_out_points as a function of the stored heights.  The store  *)
(* holds, for each address, entries at some of LoadHeights; a reader asks  *)
(* for an address and a height.                                            *)
(***************************************************************************)
\* heights on both sides of 256 and 512
LoadHeights == {1, 2, 255, 256, 257, 512}
MaxEntries == 2      \* e: entries per address

\* the entry the indexer wrote for a at h: one outpoint that names both
EntryAt(a, h) == {<<a, h>>}

\* The store with the entries of A at hsA and of B at hsB.
LoadDb(hsA, hsB) ==
    LET ks == {build_eth_key("A", Some(h)) : h \in hsA}
                \cup {build_eth_key("B", Some(h)) : h \in hsB}
    IN  [k \in DOMAIN EmptyDb \cup ks |->
            IF k \in DOMAIN EmptyDb THEN EmptyDb[k]
            ELSE EntryAt(k[2], Unwrap(k[3]))]

InitLoad ==
    /\ \E hsA \in SUBSET LoadHeights : \E hsB \in SUBSET LoadHeights :
          /\ Cardinality(hsA) <= MaxEntries
          /\ Cardinality(hsB) <= MaxEntries
          /\ db = LoadDb(hsA, hsB)
    /\ chain = <<>>
    /\ txs = <<>>
    /\ pc = "read"
    /\ obs = None

\* A reader loads the latest outpoints of an address at a height.
LoadLatest ==
    /\ pc = "read"
    /\ \E a \in {"A", "B"} : \E H \in LoadHeights :
          obs' = Some([eth_address |-> a, block_number |-> H,
                       out_points |-> load_latest_out_points(db, a, H)])
    /\ UNCHANGED <<db, chain, txs, pc>>

NextLoad == LoadLatest

SpecLoad == InitLoad /\ [][NextLoad]_vars

(***************************************************************************)
(* C6: load_latest_out_points(addr, H) returns the entry of the            *)
(* numerically greatest stored height <= H of addr, the empty set when     *)
(* there is none, for every set of stored heights and every H (heights on  *)
(* both sides of a multiple of 256 included).                              *)
(***************************************************************************)
C6_LatestByHeight ==
    obs # None =>
        Unwrap(obs).out_points =
            LatestSnapshot(db, Unwrap(obs).eth_address, Unwrap(obs).block_number)

(***************************************************************************)
(* eth_sendRawTransaction (modules/eth.rs) and the accounts over time: A   *)
(* is funded and signs transfers, the runner builds their transactions,    *)
(* the base chain includes them and the indexer ingests them.              *)
(***************************************************************************)
MaxNonceHeight == 3  \* blocks of the chain
MaxNonce == 1        \* the nonces A signs are 0..MaxNonce
MaxSent == 2         \* transactions the runner sends

\* n CKB in shannons
CKB(n) == BigMul(BigOfNat(n), <<0, 0, 1>>)

Funding ==
    [inputs |-> <<<<0, 0>>>>,
     outputs |-> <<Output(CODE_HASH_LOCK, <<"A">>, <<>>, CKB(1000))>>,
     witnesses |-> <<<<>>>>, deps |-> <<>>]

\* A's signed transfer of 61 CKB to B
Transfer(nonce) ==
    RawTx(nonce, <<1>>, BigOfNat(21000), Some("B"), Wei(CKB(61)), None, "A")

NonceRaws == {Transfer(n) : n \in 0..MaxNonce}

\* an execution that ends without return data and writes nothing
EvmKnown == [kind |-> "known", data |-> <<>>, writes |-> <<>>]

\* send_transaction: the node refuses a transaction it already has and one
\* with an output below the capacity it occupies.
NodeAccepts(t) ==
    /\ t \notin Range(txs)
    /\ \A i \in DOMAIN t.outputs : ~is_lack_of_capacity(t.outputs[i])

\* eth_sendRawTransaction(raw): [case, run, result, sent], where run is what
\* Runner::run returned, result is Ok(hash) or the first error and sent is
\* the transaction handed to the node by send_transaction, if any.
send_raw_transaction(raw, evm) ==
    Bind(from_raw(raw), LAMBDA tx :
    IF ~tx.ok
    THEN [case |-> "error", run |-> tx, result |-> tx, sent |-> None]
    ELSE
    Bind(run(db, tx.val, tip_block_number(db), evm), LAMBDA ran :
    IF ~ran.result.ok
    THEN [case |-> ran.case, run |-> ran.result, result |-> ran.result,
          sent |-> None]
    ELSE IF ~NodeAccepts(ran.result.val)
    THEN [case |-> ran.case, run |-> ran.result, result |-> Err("Rpc"),
          sent |-> Some(ran.result.val)]
    ELSE [case |-> ran.case, run |-> ran.result, result |-> Ok(hash(tx.val)),
          sent |-> Some(ran.result.val)]))

\* One call of eth_sendRawTransaction: on success the built transaction is
\* with the node.
SendRawTransaction(raws, evms, max_txs) ==
    /\ Len(txs) < max_txs
    /\ \E raw \in raws : \E evm \in evms :
         \E r \in {send_raw_transaction(raw, evm)} :
            /\ obs' = Some([op |-> "send_raw_transaction", raw |-> raw,
                            evm |-> evm, case |-> r.case, run |-> r.run,
                            result |-> r.result, sent |-> r.sent])
            /\ txs' = IF r.sent # None /\ r.result.ok
                      THEN Append(txs, Unwrap(r.sent))
                      ELSE txs
    /\ UNCHANGED <<db, chain, pc>>

InitNonce ==
    /\ db = EmptyDb
    /\ chain = <<>>
    /\ txs = <<Funding>>
    /\ pc = "check"
    /\ obs = None

MineNonce == MineUpTo(MaxNonceHeight, 1)

SendRawNonce == SendRawTransaction(NonceRaws, {EvmKnown}, 1 + MaxSent)

NextNonce ==
    \/ MineNonce
    \/ IndexerCheckOk
    \/ IndexerIngest
    \/ IndexerSleep
    \/ SendRawNonce

SpecNonce == InitNonce /\ [][NextNonce]_vars

(***************************************************************************)
(* C8: for every address and heights H1 <= H2 <= block.height, the next    *)
(* nonce of the account at H1 is at most its next nonce at H2, whatever    *)
(* nonces the signer puts in the transactions the runner builds.           *)
(***************************************************************************)
C8_NextNonceMonotone ==
    \A a \in Addr : \A H1 \in 0..Height(db) : \A H2 \in H1..Height(db) :
        LET n1 == get_transaction_count(db, a, H1)
            n2 == get_transaction_count(db, a, H2)
        IN  (n1.ok /\ n2.ok) => n1.val <= n2.val

(***************************************************************************)
(* Accounts of every shape.  The base chain may include a transaction that *)
(* gives A two fund cells and a main cell, K0 a contract main cell and K1  *)
(* two main cells (1), one that gives B a cell of no known type (2), and   *)
(* one that spends a fund cell of A to a lock the index ignores (3).       *)
(***************************************************************************)
MaxAccountHeight == 2    \* blocks of the chain
MaxAccountBlockTxs == 1  \* transactions per block

Code0 == [code |-> <<96>>, storage |-> <<>>]

AccountTxs ==
    <<[inputs |-> <<<<0, 0>>>>,
       outputs |-> <<Output(CODE_HASH_LOCK, <<"A">>, <<>>, CKB(1000)),
                     Output(CODE_HASH_LOCK, <<"A">>, <<>>, CKB(500)),
                     Output(CODE_HASH_LOCK, <<"A">>, NormalMainData(7),
                            CKB(100)),
                     Output(CODE_HASH_CONTRACT_LOCK, <<"K0">>,
                            ContractMainData(Code0), CKB(200)),
                     Output(CODE_HASH_LOCK, <<"K1">>, NormalMainData(8),
                            CKB(100)),
                     Output(CODE_HASH_LOCK, <<"K1">>, NormalMainData(9),
                            CKB(100))>>,
       witnesses |-> <<<<>>>>, deps |-> <<>>],
      [inputs |-> <<<<0, 1>>>>,
       outputs |-> <<Output(CODE_HASH_LOCK, <<"B">>, <<3>>, CKB(100))>>,
       witnesses |-> <<<<>>>>, deps |-> <<>>],
      [inputs |-> <<<<1, 1>>>>,
       outputs |-> <<Output("OTHER", <<"A">>, <<>>, CKB(500))>>,
       witnesses |-> <<<<>>>>, deps |-> <<>>]>>

InitAccount ==
    /\ db = EmptyDb
    /\ chain = <<>>
    /\ txs = AccountTxs
    /\ pc = "check"
    /\ obs = None

MineAccount == MineUpTo(MaxAccountHeight, MaxAccountBlockTxs)

\* A handler loads the account of one of the addresses at a height
\* (Loader::load_account).
LoadAccountOf(addresses) ==
    /\ \E a \in addresses : \E H \in 0..Height(db) :
       \E load_spent \in BOOLEAN :
          obs' = Some([op |-> "load_account", eth_address |-> a,
                       block_number |-> H, load_spent |-> load_spent,
                       result |-> load_account(db, a, H, load_spent)])
    /\ UNCHANGED <<db, chain, txs, pc>>

LoadAccount == LoadAccountOf(Addr)

NextAccount ==
    \/ MineAccount
    \/ IndexerCheckOk
    \/ IndexerIngest
    \/ IndexerSleep
    \/ LoadAccount

SpecAccount == InitAccount /\ [][NextAccount]_vars

(***************************************************************************)
(* The runner over these accounts: A signs a transfer to B, a transfer to  *)
(* itself, a call of K0 and a contract creation, at any time.              *)
(***************************************************************************)
MaxRunHeight == 2    \* blocks of the chain
MaxRunBlockTxs == 1  \* transactions per block
MaxRunSent == 1      \* transactions the runner sends

\* The last one is a call of K0 that pays 10^10 wei (one shannon) per gas.
RunRaws ==
    {Transfer(0),
     RawTx(0, <<1>>, BigOfNat(21000), Some("A"), Wei(CKB(61)), None, "A"),
     RawTx(0, <<1>>, BigOfNat(21000), Some("K0"), <<>>, Some(<<1>>), "A"),
     RawTx(0, <<1>>, BigOfNat(21000), None, Wei(CKB(100)), Some(<<96>>), "A"),
     RawTx(1, SHANNON_TO_WEI, BigOfNat(21000), Some("K0"), Wei(CKB(5)),
           Some(<<1>>), "A")}

\* an execution that returns data and writes 7 to slot 1
EvmReturn == [kind |-> "return", data |-> <<96>>, writes |-> <<7>>]

MineRun == MineUpTo(MaxRunHeight, MaxRunBlockTxs)

SendRawRun ==
    SendRawTransaction(RunRaws, {EvmReturn}, Len(AccountTxs) + MaxRunSent)

NextRun ==
    \/ MineRun
    \/ IndexerCheckOk
    \/ IndexerIngest
    \/ IndexerSleep
    \/ SendRawRun

SpecRun == InitAccount /\ [][NextRun]_vars

\* The cells of a's snapshot at H by the layout's definition, and whether the
\* node can give each of them to a load.
SnapshotCells(a, H) == LatestSnapshot(db, a, H)
SpentOnChain(p) == p \in InputsOf(Flatten(chain))
Resolves(a, H, load_spent) ==
    \A p \in SnapshotCells(a, H) :
        OnChain(p[1]) /\ (load_spent \/ ~SpentOnChain(p))
MainCellsAt(a, H) == {p \in SnapshotCells(a, H) : CellAt(p).data # <<>>}
FundCellsAt(a, H) == {p \in SnapshotCells(a, H) : CellAt(p).data = <<>>}

(***************************************************************************)
(* C9: load_account yields an account with at most one main cell.  When    *)
(* the snapshot resolves to more than one cell with data, it fails with    *)
(* MalformedData; otherwise the account has the one cell with data (if     *)
(* any) as its main cell and every cell without data as a fund cell.       *)
(***************************************************************************)
C9_AtMostOneMainCell ==
    [][(obs' # obs /\ Unwrap(obs').op = "load_account") =>
        LET r == Unwrap(obs')
            a == r.eth_address
            H == r.block_number
            main == MainCellsAt(a, H)
            fund == FundCellsAt(a, H)
        IN  Resolves(a, H, r.load_spent) =>
              IF Cardinality(main) > 1
              THEN r.result = Err("MalformedData: Invalid account cells")
              ELSE /\ r.result.ok
                   /\ r.result.val # None
                   /\ LET account == Unwrap(r.result.val)
                      IN  /\ account.main_cell =
                                (IF main = {} THEN None
                                 ELSE Some(EthCell(CellAt(CHOOSE p \in main : TRUE),
                                                   CHOOSE p \in main : TRUE)))
                          /\ Len(account.fund_cells) = Cardinality(fund)
                          /\ Range(account.fund_cells) =
                                {EthCell(CellAt(p), p) : p \in fund}]_vars

\* K1 has its two main cells, both resolve, and its load has failed.
C9_Witness ==
    /\ obs # None
    /\ Unwrap(obs).op = "load_account"
    /\ Unwrap(obs).eth_address = "K1"
    /\ Unwrap(obs).block_number = Height(db)
    /\ Cardinality(MainCellsAt("K1", Height(db))) = 2
    /\ Resolves("K1", Height(db), Unwrap(obs).load_spent)
    /\ Unwrap(obs).result = Err("MalformedData: Invalid account cells")

(***************************************************************************)
(* C10: Runner.run dispatches on three disjoint cases.  No tx.to: contract *)
(* creation.  tx.to an account whose main cell starts with 0x02: contract  *)
(* call.  tx.to an account without main cell (an address without any cell  *)
(* included) or with a main cell that starts with 0x01: plain transfer.    *)
(***************************************************************************)
C10_RunDispatch ==
    [][(obs' # obs /\ Unwrap(obs').op = "send_raw_transaction") =>
        LET r == Unwrap(obs')
            to == r.raw.to
            H == Height(db)
            main == MainCellsAt(Unwrap(to), H)
            first == CellAt(CHOOSE p \in main : TRUE).data[1]
        IN  /\ to = None => r.case = "create_contract"
            /\ (to # None /\ Resolves(Unwrap(to), H, FALSE)) =>
                  /\ (Cardinality(main) = 1 /\ first = 2)
                        => r.case = "call_contract"
                  /\ (main = {} \/ (Cardinality(main) = 1 /\ first = 1))
                        => r.case = "send_to_normal_account"
            /\ r.case \in {"call_contract", "send_to_normal_account"} =>
                  /\ to # None
                  /\ Resolves(Unwrap(to), H, FALSE)
                  /\ Cardinality(main) <= 1]_vars

\* A transfer to B, which has no cell at any height, went the transfer's way.
C10_Witness ==
    /\ obs # None
    /\ Unwrap(obs).op = "send_raw_transaction"
    /\ Unwrap(obs).raw.to = Some("B")
    /\ Height(db) >= 1
    /\ EthHeights(db, "B") = {}
    /\ Unwrap(obs).case = "send_to_normal_account"

(***************************************************************************)
(* Views of a send used to state the properties of the built transaction.  *)
(***************************************************************************)
RECURSIVE BigSum(_)
BigSum(seq) == IF seq = <<>> THEN <<>> ELSE BigAdd(Head(seq), BigSum(Tail(seq)))

\* a step that is one call of eth_sendRawTransaction, and what it observed
IsSend == obs' # obs /\ Unwrap(obs').op = "send_raw_transaction"
Sent == Unwrap(obs')

\* the capacities of the cells the inputs refer to, and of the outputs
InputCapacities(t) == [i \in 1..Len(t.inputs) |-> CellAt(t.inputs[i]).capacity]
OutputCapacities(t) == [i \in 1..Len(t.outputs) |-> t.outputs[i].capacity]

\* q = floor(w / 10^10), said without dividing
IsQuotient(q, w) ==
    BigLeq(Wei(q), w) /\ BigLess(w, Wei(BigAdd(q, <<1>>)))

(***************************************************************************)
(* C11: every transaction Runner.run returns (transfer, contract call,     *)
(* contract creation) is balanced: the capacities of the cells its inputs  *)
(* refer to, minus the sum of its output capacities, is                    *)
(* floor(gas_price * gas_limit / 10^10) = tx.fees_in_capacity.             *)
(***************************************************************************)
C11_Balanced ==
    [][(IsSend /\ Sent.run.ok) =>
        LET t == Sent.run.val
            ins == BigSum(InputCapacities(t))
            outs == BigSum(OutputCapacities(t))
        IN  /\ BigLeq(outs, ins)
            /\ IsQuotient(BigSub(ins, outs),
                          BigMul(Sent.raw.gas_price, Sent.raw.gas_limit))]_vars

\* A call of K0 that pays 21000 shannons of fees was built from A's three
\* cells and the callee's main cell.
C11_Witness ==
    /\ obs # None
    /\ Unwrap(obs).op = "send_raw_transaction"
    /\ Unwrap(obs).case = "call_contract"
    /\ Unwrap(obs).run.ok
    /\ Len(Unwrap(obs).run.val.inputs) = 4
    /\ Unwrap(obs).raw.gas_price = SHANNON_TO_WEI
    /\ BigSub(BigSum(InputCapacities(Unwrap(obs).run.val)),
              BigSum(OutputCapacities(Unwrap(obs).run.val))) = BigOfNat(21000)

\* the sender's cells when the handler runs: its snapshot at block.height
SenderCells == SnapshotCells(Sent.raw.from, Height(db))
SenderMain == MainCellsAt(Sent.raw.from, Height(db))
SenderTotal ==
    LET ps == SetToSeq(SenderCells)
    IN  BigSum([i \in 1..Len(ps) |-> CellAt(ps[i]).capacity])

\* the callee's prior main cell of a contract call
CalleeMain == CHOOSE p \in MainCellsAt(Unwrap(Sent.raw.to), Height(db)) : TRUE

\* the capacity the target cell gets on top of the value
SpareOf ==
    IF Sent.case = "call_contract" THEN CellAt(CalleeMain).capacity ELSE <<>>

\* the 8 little-endian bytes of a nonce below 2^24
Le8(n) == [i \in 1..8 |-> IF i <= 3 THEN (n \div (256 ^ (i - 1))) % 256 ELSE 0]

(***************************************************************************)
(* C12: a built transaction has exactly two outputs.  The first is under   *)
(* the sender's prior lock, has data 0x01 followed by the 8 little-endian  *)
(* bytes of tx.nonce and capacity (sum of the sender's main and fund cell  *)
(* capacities) - fees_in_capacity - value_capacity; the second is the      *)
(* target cell with capacity value_capacity + spare_capacity.              *)
(***************************************************************************)
C12_TwoOutputs ==
    [][(IsSend /\ Sent.run.ok) =>
        LET t == Sent.run.val
            change == t.outputs[1]
            target == t.outputs[2]
        IN  /\ Len(t.outputs) = 2
            /\ change.data = <<1>> \o Le8(Sent.raw.nonce)
            /\ \E p \in SenderCells :
                  /\ change.lock = CellAt(p).lock
                  /\ SenderMain # {} => p \in SenderMain
            /\ BigLeq(SpareOf, target.capacity)
            /\ IsQuotient(BigSub(target.capacity, SpareOf), Sent.raw.value)
            /\ BigLeq(BigAdd(change.capacity,
                             BigSub(target.capacity, SpareOf)), SenderTotal)
            /\ IsQuotient(
                  BigSub(SenderTotal,
                         BigAdd(change.capacity,
                                BigSub(target.capacity, SpareOf))),
                  BigMul(Sent.raw.gas_price, Sent.raw.gas_limit))]_vars

\* A contract creation was built for A, which had a main cell and two fund
\* cells (1600 CKB): the change is 1500 CKB, the contract cell gets 100 CKB.
C12_Witness ==
    /\ obs # None
    /\ Unwrap(obs).op = "send_raw_transaction"
    /\ Unwrap(obs).case = "create_contract"
    /\ Unwrap(obs).run.ok
    /\ Unwrap(obs).run.val.outputs[1].capacity = CKB(1500)
    /\ Unwrap(obs).run.val.outputs[2].capacity = CKB(100)
    /\ Unwrap(obs).run.val.outputs[2].lock =
            Script(CODE_HASH_CONTRACT_LOCK, <<"K0">>)

(***************************************************************************)
(* C14: in every built transaction the inputs are the sender's main cell   *)
(* first (when it has one), then all its fund cells, and for a contract    *)
(* call the callee's prior main cell last; there are as many witnesses as  *)
(* inputs, the first is the one-element list [tx.raw] and every other is   *)
(* empty.                                                                  *)
(***************************************************************************)
C14_InputsAndWitnesses ==
    [][(IsSend /\ Sent.run.ok) =>
        LET t == Sent.run.val
            n == Len(t.inputs)
            own == IF Sent.case = "call_contract" THEN n - 1 ELSE n
            first == IF SenderMain # {} THEN 2 ELSE 1
            fund == FundCellsAt(Sent.raw.from, Height(db))
        IN  /\ SenderMain # {} => (n >= 1 /\ t.inputs[1] \in SenderMain)
            /\ own - first + 1 = Cardinality(fund)
            /\ {t.inputs[i] : i \in first..own} = fund
            /\ Sent.case = "call_contract" => t.inputs[n] = CalleeMain
            /\ Len(t.witnesses) = n
            /\ n >= 1
            /\ t.witnesses[1] = <<Sent.raw>>
            /\ \A i \in 2..n : t.witnesses[i] = <<>>]_vars

\* A call of K0 by A: A's main cell, its two fund cells, then K0's main cell.
C14_Witness ==
    /\ obs # None
    /\ Unwrap(obs).op = "send_raw_transaction"
    /\ Unwrap(obs).case = "call_contract"
    /\ Unwrap(obs).run.ok
    /\ Unwrap(obs).run.val.inputs[1] = <<1, 2>>
    /\ {Unwrap(obs).run.val.inputs[2], Unwrap(obs).run.val.inputs[3]}
            = {<<1, 0>>, <<1, 1>>}
    /\ Unwrap(obs).run.val.inputs[4] = <<1, 3>>
    /\ Unwrap(obs).run.val.witnesses =
            <<<<Unwrap(obs).raw>>, <<>>, <<>>, <<>>>>

(***************************************************************************)
(* The spec's transfer scenarios.  A's only cell is one fund cell, of 100  *)
(* CKB or of 30 CKB; A signs transfers to B, which has no cell, and a      *)
(* contract creation.                                                      *)
(***************************************************************************)
MaxColdHeight == 2   \* blocks of the chain
MaxColdSent == 1     \* transactions the runner sends

ColdFunds == {CKB(100), CKB(30)}

ColdFunding(capacity) ==
    [inputs |-> <<<<0, 0>>>>,
     outputs |-> <<Output(CODE_HASH_LOCK, <<"A">>, <<>>, capacity)>>,
     witnesses |-> <<<<>>>>, deps |-> <<>>]

\* E1 is the transfer of the scenarios: 5 * 10^11 wei = 50 * 10^10 wei, 50
\* shannons; then transfers of 60, 61 and 200 CKB and a creation with 200 CKB.
ColdRaws ==
    {E1,
     RawTx(0, <<1>>, BigOfNat(21000), Some("B"), Wei(CKB(60)), None, "A"),
     Transfer(0),
     RawTx(0, <<1>>, BigOfNat(21000), Some("B"), Wei(CKB(200)), None, "A"),
     RawTx(0, <<1>>, BigOfNat(21000), None, Wei(CKB(200)), Some(<<96>>), "A")}

InitCold ==
    /\ db = EmptyDb
    /\ chain = <<>>
    /\ \E capacity \in ColdFunds : txs = <<ColdFunding(capacity)>>
    /\ pc = "check"
    /\ obs = None

MineCold == MineUpTo(MaxColdHeight, 1)

\* an execution that reverts
EvmRevert == [kind |-> "revert", data |-> <<>>, writes |-> <<>>]

SendRawCold ==
    SendRawTransaction(ColdRaws, {EvmReturn, EvmRevert}, 1 + MaxColdSent)

NextCold ==
    \/ MineCold
    \/ IndexerCheckOk
    \/ IndexerIngest
    \/ IndexerSleep
    \/ SendRawCold

SpecCold == InitCold /\ [][NextCold]_vars

\* The sender's only cell is its fund cell of the given capacity, live on the
\* chain; the recipient has no cell.
OnlyFundCell(capacity) ==
    /\ SenderCells = {<<1, 0>>}
    /\ CellAt(<<1, 0>>) = Output(CODE_HASH_LOCK, <<"A">>, <<>>, capacity)
    /\ Resolves(Sent.raw.from, Height(db), FALSE)
    /\ Sent.raw.to # None
    /\ SnapshotCells(Unwrap(Sent.raw.to), Height(db)) = {}

\* the transaction of a transfer of `value` shannons, `fee` shannons of fees
ColdResult(total, fee, value) ==
    [deps |-> <<db[LOCK_CODE_DEP_KEY], db[CONTRACT_LOCK_CODE_DEP_KEY]>>,
     inputs |-> <<<<1, 0>>>>,
     outputs |-> <<Output(CODE_HASH_LOCK, <<Sent.raw.from>>,
                          <<1>> \o Le8(Sent.raw.nonce),
                          BigSub(BigSub(total, value), fee)),
                   Output(CODE_HASH_LOCK, <<Unwrap(Sent.raw.to)>>, <<>>, value)>>,
     witnesses |-> <<<<Sent.raw>>>>]

(***************************************************************************)
(* C13 as stated: for A with one fund cell of 100 CKB and the transfer to  *)
(* B of 5*10^11 wei (gas_price 1, gas_limit 21000, nonce 0), Runner.run    *)
(* succeeds with the fund cell as input and the outputs NormalMainCell(A,  *)
(* nonce 0) of 100*10^8 - 50 - 21000 and a cell of 50 under B's lock.      *)
(***************************************************************************)
C13_ColdTransfer ==
    [][(IsSend /\ Sent.raw = E1 /\ OnlyFundCell(CKB(100))) =>
        Sent.run = Ok(ColdResult(CKB(100), BigOfNat(21000), BigOfNat(50)))]_vars

(***************************************************************************)
(* C13 as amended: the transfer of 5*10^11 wei fails with MalformedData    *)
(* "Capacity is not enough!", its target cell of 50 shannons being below   *)
(* the 60 CKB it occupies; the same transfer with a value of 61 CKB        *)
(* succeeds with the fund cell as input and the outputs NormalMainCell(A,  *)
(* nonce 0) of 100*10^8 - 61*10^8 - 0 (the fees, 21000 wei, are 0          *)
(* shannons) and a cell of 61*10^8 under B's lock with empty data.         *)
(***************************************************************************)
C13_ColdTransferAmended ==
    [][(IsSend /\ OnlyFundCell(CKB(100))) =>
        /\ Sent.raw = E1 =>
              Sent.run = Err("MalformedData: Capacity is not enough!")
        /\ Sent.raw = Transfer(0) =>
              Sent.run = Ok(ColdResult(CKB(100), <<>>, CKB(61)))]_vars

\* The transfer of 61 CKB was built from the fund cell of 100 CKB.
C13_Witness ==
    /\ obs # None
    /\ Unwrap(obs).op = "send_raw_transaction"
    /\ Unwrap(obs).raw = Transfer(0)
    /\ Unwrap(obs).run.ok
    /\ Unwrap(obs).run.val.inputs = <<<<1, 0>>>>
    /\ Unwrap(obs).run.val.outputs[1].capacity = CKB(39)
    /\ Unwrap(obs).sent # None

\* floor(w / 10^10)
FloorShannons(w) == BigDivSmall(BigDivSmall(BigDivSmall(w, 10000), 10000), 100)

FeeShannons == FloorShannons(BigMul(Sent.raw.gas_price, Sent.raw.gas_limit))
ValueShannons == FloorShannons(Sent.raw.value)

\* the sender cannot pay the fees and the value
Insufficient == BigLess(SenderTotal, BigAdd(FeeShannons, ValueShannons))

\* the handler returned the runner's error and handed nothing to the node
NothingSent ==
    /\ ~Sent.run.ok
    /\ Sent.result = Sent.run
    /\ Sent.sent = None
    /\ txs' = txs

\* the target cell of a transfer or of a creation, before any spare capacity
TargetOf ==
    IF Sent.raw.to = None
    THEN Output(CODE_HASH_CONTRACT_LOCK,
                <<ContractAddress(Sent.raw.from, Sent.raw.nonce)>>,
                ContractMainData([code |-> Sent.evm.data,
                                  storage |-> Sent.evm.writes]),
                ValueShannons)
    ELSE Output(CODE_HASH_LOCK, <<Unwrap(Sent.raw.to)>>, <<>>, ValueShannons)

TargetLacks == BigLess(ValueShannons, CKB(OccupiedBytes(TargetOf)))

\* the steps of run() before the balance check succeed: the accounts load,
\* the recipient is no contract, the EVM run of a creation returns
ReachesBalanceCheck ==
    /\ Resolves(Sent.raw.from, Height(db), FALSE)
    /\ Cardinality(SenderMain) <= 1
    /\ Sent.raw.to # None =>
          SnapshotCells(Unwrap(Sent.raw.to), Height(db)) = {}
    /\ Sent.raw.to = None =>
          (Sent.raw.data # None /\ Sent.evm.kind = "return")

(***************************************************************************)
(* C15 as stated: whenever the sum of the sender's cell capacities is less *)
(* than fees_in_capacity + value_capacity, Runner.run fails with           *)
(* MalformedData("Account capacity is not enough!") and the handler        *)
(* returns the error without calling send_transaction; so it is for the    *)
(* fund cell of 30 CKB and the value of 50*10^10 wei.                      *)
(***************************************************************************)
C15_InsufficientBalance ==
    [][IsSend =>
        /\ Insufficient =>
              /\ Sent.run = Err("MalformedData: Account capacity is not enough!")
              /\ NothingSent
        /\ (OnlyFundCell(CKB(30)) /\ Sent.raw = E1) =>
              /\ Sent.run = Err("MalformedData: Account capacity is not enough!")
              /\ NothingSent]_vars

(***************************************************************************)
(* C15 as amended: whenever the sum of the sender's cell capacities is     *)
(* less than fees_in_capacity + value_capacity, Runner.run fails and the   *)
(* handler returns its error without calling send_transaction.  When the   *)
(* steps before the balance check succeed, the error is MalformedData      *)
(* "Capacity is not enough!" if the target cell is below the capacity it   *)
(* occupies and MalformedData "Account capacity is not enough!" otherwise. *)
(* The fund cell of 30 CKB with the value of 50*10^10 wei (50 shannons) is *)
(* no case of insufficient balance; it fails on the target cell.           *)
(***************************************************************************)
C15_InsufficientBalanceAmended ==
    [][IsSend =>
        /\ Insufficient =>
              /\ NothingSent
              /\ ReachesBalanceCheck =>
                    Sent.run =
                        (IF TargetLacks
                         THEN Err("MalformedData: Capacity is not enough!")
                         ELSE Err("MalformedData: Account capacity is not enough!"))
        /\ (OnlyFundCell(CKB(30)) /\ Sent.raw = E1) =>
              /\ ~Insufficient
              /\ Sent.run = Err("MalformedData: Capacity is not enough!")
              /\ NothingSent]_vars

\* A's fund cell of 30 CKB is indexed and its transfer of 61 CKB has failed.
C15_Witness ==
    /\ obs # None
    /\ Unwrap(obs).op = "send_raw_transaction"
    /\ Unwrap(obs).raw = Transfer(0)
    /\ LatestSnapshot(db, "A", Height(db)) = {<<1, 0>>}
    /\ CellAt(<<1, 0>>).capacity = CKB(30)
    /\ Unwrap(obs).run = Err("MalformedData: Account capacity is not enough!")
    /\ Unwrap(obs).result = Unwrap(obs).run
    /\ Unwrap(obs).sent = None
    /\ Len(txs) = 1

(***************************************************************************)
(* The conversions between wei and capacities on their own: an input is    *)
(* drawn around the powers of two and the conversion is applied to it.     *)
(***************************************************************************)
\* the powers of two the inputs are built from, as base-10000 limbs, low limb first
BigPow2(k) ==
    CASE k = 0 -> <<1>>
      [] k = 1 -> <<2>>
      [] k = 8 -> <<256>>
      [] k = 16 -> <<5536, 6>>
      [] k = 32 -> <<7296, 9496, 42>>
      [] k = 63 -> <<5808, 5477, 368, 3372, 922>>
      [] k = 64 -> <<1616, 955, 737, 6744, 1844>>
      [] k = 65 -> <<3232, 1910, 1474, 3488, 3689>>
      [] k = 128 -> <<1456, 6821, 4317, 4607, 6337, 4634, 938, 6692, 2823, 340>>
      [] k = 199 -> <<688, 1765, 3964, 6891, 149, 2611, 1301, 7058, 461, 981, 3777, 4951, 2129, 6902, 8034>>
      [] k = 222 -> <<2304, 256, 2759, 3120, 3514, 1056, 9286, 6840, 9076, 1754, 5377, 6667, 9948, 8765, 6667, 9986, 673>>
      [] k = 255 -> <<9968, 6481, 9565, 2003, 2879, 197, 282, 3282, 9923, 6634, 5392, 3439, 2504, 8549, 7117, 8097, 1865, 446, 7896, 5>>

\* exponents around the widths of u8 .. u64, u128 and of the largest quotient
WeiBits == {0, 1, 8, 16, 32, 63, 64, 65, 128, 222}

WeiQuotients ==
    {<<>>} \cup {BigPow2(k) : k \in WeiBits}
           \cup {BigSub(BigPow2(k), <<1>>) : k \in WeiBits}
           \cup {BigAdd(BigPow2(k), <<1>>) : k \in WeiBits}

\* remainders of a division by 10^10
WeiRemainders == {<<>>, <<1>>, <<0, 0, 50>>, BigSub(SHANNON_TO_WEI, <<1>>)}

WeiInputs ==
    {w \in {BigAdd(BigMul(q, SHANNON_TO_WEI), r) :
               q \in WeiQuotients, r \in WeiRemainders} : FitsU256(w)}
        \cup {BigSub(TwoTo256, <<1>>)}

CapacityInputs == {c \in WeiQuotients : FitsU64(c)}

InitWei ==
    /\ db = EmptyDb
    /\ chain = <<>>
    /\ txs = <<>>
    /\ pc = "check"
    /\ \/ \E w \in WeiInputs : obs = Some([op |-> "wei", input |-> w])
       \/ \E c \in CapacityInputs : obs = Some([op |-> "capacity", input |-> c])

WeiToCapacity ==
    /\ Unwrap(obs).op = "wei"
    /\ obs' = Some([op |-> "wei_to_capacity", input |-> Unwrap(obs).input,
                    result |-> wei_to_capacity(Unwrap(obs).input)])
    /\ UNCHANGED <<db, chain, txs, pc>>

\* c -> wei as total_capacities_in_wei does, and back
CapacityToWeiAndBack ==
    /\ Unwrap(obs).op = "capacity"
    /\ obs' = Some([op |-> "capacity_in_wei", input |-> Unwrap(obs).input,
                    wei |-> capacity_in_wei(Unwrap(obs).input),
                    result |-> Try(capacity_in_wei(Unwrap(obs).input),
                                   LAMBDA w : wei_to_capacity(w))])
    /\ UNCHANGED <<db, chain, txs, pc>>

NextWei ==
    \/ WeiToCapacity
    \/ CapacityToWeiAndBack

SpecWei == InitWei /\ [][NextWei]_vars

(***************************************************************************)
(* C16: for every capacity c in the u64 range, c * 10^10 (the conversion   *)
(* of total_capacities_in_wei) succeeds, and wei_to_capacity of it         *)
(* succeeds and returns c.                                                 *)
(***************************************************************************)
C16_RoundTrip ==
    (obs # None /\ Unwrap(obs).op = "capacity_in_wei" /\ FitsU64(Unwrap(obs).input))
        => /\ Unwrap(obs).wei.ok
           /\ BigDivSmall(BigDivSmall(BigDivSmall(Unwrap(obs).wei.val, 10000),
                                      10000), 100) = Unwrap(obs).input
           /\ Unwrap(obs).result = Ok(Unwrap(obs).input)

\* the largest u64 has gone to wei and back
C16_Witness ==
    /\ obs # None
    /\ Unwrap(obs).op = "capacity_in_wei"
    /\ Unwrap(obs).input = BigSub(TwoTo64, <<1>>)
    /\ Unwrap(obs).result = Ok(BigSub(TwoTo64, <<1>>))

(***************************************************************************)
(* C17: wei_to_capacity(w) is floor(w / 10^10) when that quotient is below *)
(* 2^64, and a MalformedData error when it is not; a result is never the   *)
(* quotient reduced modulo 2^64.                                           *)
(***************************************************************************)
C17_FloorOrError ==
    (obs # None /\ Unwrap(obs).op = "wei_to_capacity")
        => LET w == Unwrap(obs).input
               r == Unwrap(obs).result
           IN  IF BigLess(w, Wei(TwoTo64))
               THEN r.ok /\ IsQuotient(r.val, w)
               ELSE r = Err("MalformedData: Exceeds maximum range of capacity!")

\* the largest wei amount that converts: 2^64 * 10^10 - 1 gives 2^64 - 1
C17_Witness ==
    /\ obs # None
    /\ Unwrap(obs).op = "wei_to_capacity"
    /\ Unwrap(obs).input = BigSub(Wei(TwoTo64), <<1>>)
    /\ Unwrap(obs).result = Ok(BigSub(TwoTo64, <<1>>))

(***************************************************************************)
(* Capacity and fee arithmetic at the edges of u64 and U256: A has an      *)
(* ordinary fund cell, B two cells whose capacities add up to 2^64, K0 is  *)
(* a contract; A and B sign transactions with extreme values and prices.   *)
(***************************************************************************)
MaxOverflowHeight == 2   \* blocks of the chain
MaxOverflowSent == 1     \* transactions the runner sends

OverflowFunding ==
    [inputs |-> <<<<0, 0>>>>,
     outputs |-> <<Output(CODE_HASH_LOCK, <<"A">>, <<>>, CKB(1000)),
                   Output(CODE_HASH_LOCK, <<"B">>, <<>>, BigPow2(63)),
                   Output(CODE_HASH_LOCK, <<"B">>, <<>>, BigPow2(63)),
                   Output(CODE_HASH_CONTRACT_LOCK, <<"K0">>,
                          ContractMainData(Code0), CKB(200))>>,
     witnesses |-> <<<<>>>>, deps |-> <<>>]

OverflowRaws ==
    {\* gas_price * gas_limit = 2^256
     RawTx(0, BigPow2(255), <<2>>, Some("K1"), Wei(CKB(61)), None, "A"),
     \* fees of 2^200 wei: more than 2^64 shannons
     RawTx(0, BigPow2(199), <<2>>, Some("K1"), Wei(CKB(61)), None, "A"),
     \* the largest value
     RawTx(0, <<1>>, BigOfNat(21000), Some("K1"), BigSub(TwoTo256, <<1>>),
           None, "A"),
     \* a value of 2^64 - 1 shannons, to a contract and to an address
     RawTx(0, <<1>>, BigOfNat(21000), Some("K0"),
           Wei(BigSub(TwoTo64, <<1>>)), Some(<<1>>), "A"),
     RawTx(0, <<1>>, BigOfNat(21000), Some("K1"),
           Wei(BigSub(TwoTo64, <<1>>)), None, "A"),
     \* fees of 1000 CKB and of 2000 CKB
     RawTx(0, SHANNON_TO_WEI, CKB(1000), Some("K1"), Wei(CKB(61)), None, "A"),
     RawTx(0, SHANNON_TO_WEI, CKB(2000), Some("K1"), Wei(CKB(61)), None, "A"),
     \* fees of 21000 shannons
     RawTx(0, SHANNON_TO_WEI, BigOfNat(21000), Some("K1"), Wei(CKB(61)),
           None, "A"),
     \* B's capacities do not add up
     RawTx(0, <<1>>, BigOfNat(21000), Some("K1"), Wei(CKB(61)), None, "B")}

InitOverflow ==
    /\ db = EmptyDb
    /\ chain = <<>>
    /\ txs = <<OverflowFunding>>
    /\ pc = "check"
    /\ obs = None

MineOverflow == MineUpTo(MaxOverflowHeight, 1)

SendRawOverflow ==
    SendRawTransaction(OverflowRaws, {EvmReturn}, 1 + MaxOverflowSent)

\* eth_getBalance at a height the indexer has reached
GetBalance ==
    /\ \E a \in Addr : \E H \in 0..Height(db) :
          obs' = Some([op |-> "get_balance", eth_address |-> a,
                       block_number |-> H,
                       result |-> get_balance(db, a, H)])
    /\ UNCHANGED <<db, chain, txs, pc>>

NextOverflow ==
    \/ MineOverflow
    \/ IndexerCheckOk
    \/ IndexerIngest
    \/ IndexerSleep
    \/ SendRawOverflow
    \/ GetBalance

SpecOverflow == InitOverflow /\ [][NextOverflow]_vars

\* the MalformedData errors of the capacity and fee arithmetic and of the
\* target cell's check, which comes between them
MalformedDataErrors ==
    {"MalformedData: Wei multiplication overflow!",
     "MalformedData: Exceeds maximum range of capacity!",
     "MalformedData: Capacity addition overflow",
     "MalformedData: Capacity is not enough!",
     "MalformedData: Capacity overflow",
     "MalformedData: Account capacity is not enough!"}

\* some step of the arithmetic of this transaction leaves its range, in
\* exact arithmetic
ArithmeticOverflows ==
    \/ ~FitsU256(BigMul(Sent.raw.gas_price, Sent.raw.gas_limit))
    \/ ~FitsU64(FeeShannons)
    \/ ~FitsU64(ValueShannons)
    \/ ~FitsU64(BigAdd(ValueShannons, SpareOf))
    \/ ~FitsU64(SenderTotal)
    \/ Insufficient

\* the cells of the sender and of the recipient load, so that the runner
\* gets to its arithmetic
AccountsResolve ==
    /\ Resolves(Sent.raw.from, Height(db), FALSE)
    /\ Sent.raw.to # None => Resolves(Unwrap(Sent.raw.to), Height(db), FALSE)

IsBalance == obs' # obs /\ Unwrap(obs').op = "get_balance"

BalanceTotal ==
    LET ps == SetToSeq(SnapshotCells(Sent.eth_address, Sent.block_number))
    IN  BigSum([i \in 1..Len(ps) |-> CellAt(ps[i]).capacity])

(***************************************************************************)
(* C18: an overflow or underflow in gas_price * gas_limit, in the sum of   *)
(* the account's capacities, in capacity -> wei, in value_capacity +       *)
(* spare_capacity or in total - fees - value makes the operation return a  *)
(* MalformedData error and nothing is sent (the arithmetic is reached when *)
(* the cells of both accounts load); a result that is returned is the      *)
(* exact value, never a wrapped or truncated one, and no operation aborts. *)
(***************************************************************************)
C18_ArithmeticErrors ==
    [][/\ IsSend =>
           /\ ArithmeticOverflows =>
                 /\ NothingSent
                 /\ AccountsResolve => Sent.run.val \in MalformedDataErrors
           /\ Sent.run.ok =>
                 /\ ~ArithmeticOverflows
                 /\ Sent.run.val.outputs[1].capacity =
                        BigSub(BigSub(SenderTotal, FeeShannons), ValueShannons)
                 /\ Sent.run.val.outputs[2].capacity =
                        BigAdd(ValueShannons, SpareOf)
       /\ IsBalance =>
           Sent.result =
               (IF FitsU64(BalanceTotal)
                THEN Ok(BigMul(BalanceTotal, SHANNON_TO_WEI))
                ELSE Err("MalformedData: Capacity overflow"))]_vars

\* gas_price * gas_limit = 2^256 has been refused with A's cell indexed
C18_Witness ==
    /\ obs # None
    /\ Unwrap(obs).op = "send_raw_transaction"
    /\ Unwrap(obs).raw.gas_price = BigPow2(255)
    /\ Unwrap(obs).raw.gas_limit = <<2>>
    /\ LatestSnapshot(db, "A", Height(db)) = {<<1, 0>>}
    /\ Unwrap(obs).run = Err("MalformedData: Wei multiplication overflow!")
    /\ Unwrap(obs).sent = None

(***************************************************************************)
(* Receipts.  An Ethereum transaction is carried by the base-chain         *)
(* transactions that have it as the only element of a witness.             *)
(***************************************************************************)
\* the Ethereum transactions in the witnesses of base-chain transaction t
CarriedBy(t) ==
    {from_raw(w[1]).val :
        w \in {x \in Range(txs[t].witnesses) : Len(x) = 1 /\ from_raw(x[1]).ok}}

EthTransactions == UNION {CarriedBy(t) : t \in DOMAIN txs}

\* the block at height k of the base chain is the one the store holds at k
Ingested(k) ==
    /\ k <= Height(db)
    /\ Get(db, build_block_hash_key(k)) = Some(HashAt(chain, k))

\* a transaction that carries T is in a block that is ingested
MinedAndIngested(T) ==
    \E t \in DOMAIN txs :
        T \in CarriedBy(t) /\ OnChain(t) /\ Ingested(BlockOf(t))

\* T is the only Ethereum transaction of the blocks that carry it
AloneInBlock(T) ==
    \A t \in DOMAIN txs :
        (T \in CarriedBy(t) /\ OnChain(t)) =>
            /\ CarriedBy(t) = {T}
            /\ \A u \in Range(chain[BlockOf(t)]) : u # t => CarriedBy(u) = {}

(***************************************************************************)
(* C19: eth_getTransactionReceipt(T) is null in every state in which the   *)
(* transaction carrying T is in no block, or in a block that is not        *)
(* ingested or was reverted; once it is mined and ingested the receipt has *)
(* transaction_index >= 1 and, T being alone in its block,                 *)
(* cumulative_gas_used = gas_price * gas_limit.                            *)
(***************************************************************************)
C19_ReceiptOnceIngested ==
    \A T \in EthTransactions :
        LET receipt == get_transaction_receipt(db, hash(T))
        IN  /\ receipt.ok
            /\ IF MinedAndIngested(T)
               THEN /\ receipt.val # None
                    /\ Unwrap(receipt.val).transaction_index >= 1
                    /\ AloneInBlock(T) =>
                          Unwrap(receipt.val).cumulative_gas_used =
                              BigMul(T.gas_price, T.gas_limit)
               ELSE receipt.val = None

(***************************************************************************)
(* C20: the contract_address of a receipt is present, and is the address   *)
(* of the deployed contract, if and only if the Ethereum transaction is a  *)
(* contract creation; it is absent for a transfer and for a call of an     *)
(* existing contract.                                                      *)
(***************************************************************************)
C20_ContractAddressIffCreation ==
    \A T \in EthTransactions :
        LET receipt == get_transaction_receipt(db, hash(T))
        IN  (receipt.ok /\ receipt.val # None) =>
                Unwrap(receipt.val).contract_address =
                    (IF T.to = None
                     THEN Some(ContractAddress(T.from, T.nonce))
                     ELSE None)

(***************************************************************************)
(* eth_getTransactionCount over main cells of every length: A's cell is    *)
(* created with data of 0 to 10 bytes (a cell without data is a fund       *)
(* cell), B has no cell.                                                   *)
(***************************************************************************)
MaxCountHeight == 2   \* blocks of the chain

CountDatas ==
    {<<>>, <<1>>, <<1, 5, 0, 0, 0, 0, 0>>, <<1, 5, 0, 0, 0, 0, 0, 0>>,
     NormalMainData(0), NormalMainData(7), NormalMainData(300),
     ContractMainData(Code0), <<1, 5, 0, 0, 0, 0, 0, 0, 0, 9>>}

CountFunding(data) ==
    [inputs |-> <<<<0, 0>>>>,
     outputs |-> <<Output(CODE_HASH_LOCK, <<"A">>, data, CKB(100))>>,
     witnesses |-> <<<<>>>>, deps |-> <<>>]

InitCount ==
    /\ db = EmptyDb
    /\ chain = <<>>
    /\ \E data \in CountDatas : txs = <<CountFunding(data)>>
    /\ pc = "check"
    /\ obs = None

MineCount == MineUpTo(MaxCountHeight, 1)

\* One call of eth_getTransactionCount, for an address and a block number.
GetTransactionCount ==
    /\ \E a \in {"A", "B"} : \E H \in 0..Height(db) :
          obs' = Some([op |-> "get_transaction_count", eth_address |-> a,
                       block_number |-> H,
                       result |-> get_transaction_count(db, a, H)])
    /\ UNCHANGED <<db, chain, txs, pc>>

NextCount ==
    \/ MineCount
    \/ IndexerCheckOk
    \/ IndexerIngest
    \/ IndexerSleep
    \/ GetTransactionCount

SpecCount == InitCount /\ [][NextCount]_vars

\* the operation ended in a panic of the thread that ran it
Aborted(r) ==
    /\ ~r.ok
    /\ r.val \in {"panic: range end index 9 out of range",
                  "panic: index out of bounds"}

(***************************************************************************)
(* C21: eth_getTransactionCount(addr, H) is stored_nonce + 1 when the      *)
(* address has a main cell at H, stored_nonce being the little-endian u64  *)
(* in bytes 1..9 of its data, and 0 when it has no main cell; for a main   *)
(* cell with less than 9 bytes of data it is an error and never an abort.  *)
(***************************************************************************)
C21_TransactionCount ==
    obs # None =>
        LET mains == MainCellsAt(Unwrap(obs).eth_address,
                                 Unwrap(obs).block_number)
            data == CellAt(CHOOSE p \in mains : TRUE).data
            result == Unwrap(obs).result
        IN  IF mains = {} THEN result = Ok(0)
            ELSE IF Len(data) < 9 THEN ~result.ok /\ ~Aborted(result)
            ELSE result = Ok(LeNat(SubSeq(data, 2, 9)) + 1)

(***************************************************************************)
(* eth_getStorageAt after deploys and calls.  The contract is a setter:    *)
(* the data <<k, v>> of a transaction makes the EVM store v at slot k (the *)
(* initializer of a deploy as well), and the run returns the code.         *)
(***************************************************************************)
MaxStorageHeight == 3   \* blocks of the chain
MaxStorageSent == 2     \* transactions the runner sends

\* A deploys (nonce 0, the contract is K0; nonce 1, K1), A calls K0
StorageRaws ==
    {RawTx(0, <<1>>, BigOfNat(21000), None, Wei(CKB(100)), Some(<<1, 7>>), "A"),
     RawTx(1, <<1>>, BigOfNat(21000), Some("K0"), <<>>, Some(<<1, 9>>), "A"),
     RawTx(1, <<1>>, BigOfNat(21000), Some("K0"), <<>>, Some(<<2, 5>>), "A")}

\* what the EVM does with the setter for this transaction
EvmOf(raw) ==
    [kind |-> "return", data |-> <<96>>,
     writes |-> [k \in {Unwrap(raw.data)[1]} |-> Unwrap(raw.data)[2]]]

InitStorage ==
    /\ db = EmptyDb
    /\ chain = <<>>
    /\ txs = <<Funding>>
    /\ pc = "check"
    /\ obs = None

MineStorage == MineUpTo(MaxStorageHeight, 1)

\* the ways the execution of the same code can fail: a trap, a vm error, and
\* a return that asks for the state to be dropped (a revert)
EvmFailures(raw) ==
    {[EvmOf(raw) EXCEPT !.kind = kind] : kind \in {"trap", "error", "revert"}}

SendRawStorage ==
    \E raw \in StorageRaws :
        SendRawTransaction({raw}, {EvmOf(raw)} \cup EvmFailures(raw),
                           1 + MaxStorageSent)

\* One call of eth_getStorageAt, for an address, a slot and a block number.
GetStorageAt ==
    /\ \E a \in {"A", "K0"} : \E position \in {1, 2} :
       \E H \in 0..Height(db) :
          obs' = Some([op |-> "get_storage_at", eth_address |-> a,
                       position |-> position, block_number |-> H,
                       result |-> get_storage_at(db, a, position, H)])
    /\ UNCHANGED <<db, chain, txs, pc>>

NextStorage ==
    \/ MineStorage
    \/ IndexerCheckOk
    \/ IndexerIngest
    \/ IndexerSleep
    \/ SendRawStorage
    \/ GetStorageAt

SpecStorage == InitStorage /\ [][NextStorage]_vars

\* the Ethereum transactions of the blocks up to H that run contract a, in
\* the order of the chain
RunsOf(a, H) ==
    SelectSeq(Flatten(SubSeq(chain, 1, H)),
              LAMBDA t : \E T \in CarriedBy(t) :
                 \/ T.to = Some(a) /\ T.data # None
                 \/ T.to = None /\ ContractAddress(T.from, T.nonce) = a)

\* a is deployed in a block up to H
DeployedBy(a, H) ==
    \E i \in DOMAIN RunsOf(a, H) :
        \E T \in CarriedBy(RunsOf(a, H)[i]) : T.to = None

\* the value the runs of a up to H stored last at the slot, 0 without one
LastStored(a, position, H) ==
    LET runs == RunsOf(a, H)
        hits == {i \in DOMAIN runs :
                    \E T \in CarriedBy(runs[i]) : Unwrap(T.data)[1] = position}
    IN  IF hits = {} THEN 0
        ELSE LET T == CHOOSE T \in CarriedBy(runs[Max(hits)]) : TRUE
             IN  Unwrap(T.data)[2]

IsStorageRead == obs' # obs /\ Unwrap(obs').op = "get_storage_at"

(***************************************************************************)
(* C22: eth_getStorageAt(addr, pos, block) fails with an error when the    *)
(* address is no contract account, and for a contract returns the value    *)
(* stored last at slot pos by the deploy and the calls ingested up to that *)
(* block, 0 for a slot never written.                                      *)
(***************************************************************************)
C22_StorageAt ==
    [][IsStorageRead =>
        LET read == Unwrap(obs')
        IN  IF DeployedBy(read.eth_address, read.block_number)
            THEN read.result =
                    Ok(LastStored(read.eth_address, read.position,
                                  read.block_number))
            ELSE ~read.result.ok /\ ~Aborted(read.result)]_vars

\* the errors call_evm makes of a failed execution
EvmErrors ==
    {"EVM: Trap is not yet supported", "EVM: vm error", "EVM: Reverted!"}

\* the handler ran the EVM for this transaction: a creation with code, or a
\* call of a loaded contract, whose gas is computable
EvmRan(sent) ==
    /\ sent.op = "send_raw_transaction"
    /\ sent.case \in {"create_contract", "call_contract"}
    /\ sent.raw.data # None
    /\ fees(sent.raw).ok

EvmFailed(sent) == EvmRan(sent) /\ sent.evm.kind \in {"trap", "error", "revert"}

(***************************************************************************)
(* C23: when the EVM traps, errors or ends with a return whose state is    *)
(* not to be applied, Runner.run returns an EVM error, the handler hands   *)
(* no transaction to the node, and the contract's stored code and storage  *)
(* (the store and the transactions on the way to it) stay as they were.    *)
(***************************************************************************)
C23_FailedExecution ==
    [][(obs' # obs /\ EvmFailed(Unwrap(obs'))) =>
        /\ ~Sent.run.ok
        /\ Sent.run.val \in EvmErrors
        /\ NothingSent
        /\ db' = db /\ chain' = chain]_vars

\* a call of the deployed contract K0 was reverted
C23_Witness ==
    /\ obs # None
    /\ EvmFailed(Unwrap(obs))
    /\ Unwrap(obs).case = "call_contract"
    /\ Unwrap(obs).evm.kind = "revert"
    /\ Unwrap(obs).run = Err("EVM: Reverted!")
    /\ get_storage_at(db, "K0", 1, Height(db)) = Ok(7)

(***************************************************************************)
(* The indexer over blocks whose transactions carry witnesses of every     *)
(* kind: 1 funds A, 2 carries E1, bytes that are no transaction, a         *)
(* transaction with a bad v, and E2; 3 carries E1 again; 4 carries a       *)
(* transaction whose gas_price * gas_limit is 2^256; 5 carries two whose   *)
(* fees add up to 2^256; 6 carries the same as 4 but has no output under   *)
(* the account lock.                                                       *)
(***************************************************************************)
MaxWitnessHeight == 2     \* blocks of the chain
MaxWitnessBlockTxs == 3   \* transactions per block

E2 == RawTx(1, <<2>>, BigOfNat(21000), Some("B"), Wei(BigOfNat(50)), None, "A")

\* a well-formed transaction whose v is that of another chain
BadV == [E1 EXCEPT !.v = 2 * CHAIN_ID + 37]

FeesOverflow == RawTx(2, BigPow2(255), <<2>>, Some("B"), <<>>, None, "A")

HalfA == RawTx(3, BigPow2(255), <<1>>, Some("B"), <<>>, None, "A")

HalfB == RawTx(4, BigPow2(255), <<1>>, Some("B"), <<>>, None, "A")

WitnessTx(input, code_hash, witnesses) ==
    [inputs |-> <<input>>,
     outputs |-> <<Output(code_hash, <<"A">>, <<>>, BigOfNat(100))>>,
     witnesses |-> witnesses, deps |-> <<>>]

WitnessTxs ==
    <<[inputs |-> <<<<0, 0>>>>,
       outputs |-> [i \in 1..5 |->
                      Output(CODE_HASH_LOCK, <<"A">>, <<>>, BigOfNat(100))],
       witnesses |-> <<<<>>>>, deps |-> <<>>],
      WitnessTx(<<1, 0>>, CODE_HASH_LOCK,
                <<<<E1>>, <<JunkRaw>>, <<BadV>>, <<E2>>>>),
      WitnessTx(<<1, 1>>, CODE_HASH_LOCK, <<<<E1>>>>),
      WitnessTx(<<1, 2>>, CODE_HASH_LOCK, <<<<FeesOverflow>>>>),
      WitnessTx(<<1, 3>>, CODE_HASH_LOCK, <<<<HalfA>>, <<HalfB>>>>),
      WitnessTx(<<1, 4>>, "OTHER", <<<<FeesOverflow>>>>)>>

InitWitness ==
    /\ db = EmptyDb
    /\ chain = <<>>
    /\ txs = WitnessTxs
    /\ pc = "check"
    /\ obs = None

MineWitness == MineUpTo(MaxWitnessHeight, MaxWitnessBlockTxs)

NextWitness ==
    \/ MineWitness
    \/ IndexerCheckOk
    \/ IndexerIngest
    \/ IndexerSleep
    \/ IndexerAbort

SpecWitness == InitWitness /\ [][NextWitness]_vars

\* the next block is there and one of its scanned transactions carries w
NextBlockCarries(w) ==
    /\ get_block_by_number(Height(db) + 1) # None
    /\ \E t \in Range(Unwrap(get_block_by_number(Height(db) + 1)).transactions) :
          /\ \E o \in Range(txs[t].outputs) : o.lock.code_hash = CODE_HASH_LOCK
          /\ <<w>> \in Range(txs[t].witnesses)

(***************************************************************************)
(* C24: no witness blocks the ingest. Whatever the witnesses of the next   *)
(* block are (bytes that do not parse, a bad signature, a transaction      *)
(* whose gas_price * gas_limit or whose cumulative gas overflows 256       *)
(* bits), the forward step has a batch to commit and index() does not      *)
(* return an error.                                                        *)
(***************************************************************************)
C24_WitnessNeverBlocks ==
    /\ pc = "fetch" => IterationBatch.ok
    /\ pc # "aborted"

(***************************************************************************)
(* EthTransaction::from_raw over the values of v, in both builds.          *)
(***************************************************************************)
MaxV == 50   \* the largest v

RecoveryRaws == {[raw EXCEPT !.v = v] : raw \in {E1, E2}, v \in 0..MaxV}

FromRaw ==
    /\ \E raw \in RecoveryRaws : \E overflow_checks \in BOOLEAN :
          obs' = Some([op |-> "from_raw", raw |-> raw,
                       overflow_checks |-> overflow_checks,
                       result |-> from_raw_built(raw, overflow_checks)])
    /\ UNCHANGED <<db, chain, txs, pc>>

NextRecovery == FromRaw

SpecRecovery == InitNonce /\ [][NextRecovery]_vars

(***************************************************************************)
(* C25: from_raw rejects with an error every transaction whose v is not    *)
(* 2 * CHAIN_ID + 35 or 2 * CHAIN_ID + 36, the values below them included, *)
(* and takes a recovery id only from these two.                            *)
(***************************************************************************)
C25_RecoveryRejects ==
    (obs # None /\ Unwrap(obs).op = "from_raw") =>
        LET call == Unwrap(obs)
            valid == call.raw.v \in {2 * CHAIN_ID + 35, 2 * CHAIN_ID + 36}
        IN  /\ call.result.ok <=> valid
            /\ ~valid => call.result = Err("MalformedData: Invalid recovery")

(***************************************************************************)
(* The forward step's effect on the e: and o: entries.                     *)
(***************************************************************************)
\* the outpoints the transactions of the block create under a lock of a
AddedBy(transactions, a) ==
    UNION {{<<t, i - 1>> :
                i \in {j \in DOMAIN txs[t].outputs :
                          /\ IndexedLock(txs[t].outputs[j])
                          /\ txs[t].outputs[j].lock.args[1] = a}} :
           t \in Range(transactions)}

\* the outpoints the transactions of the block spend that the store d knows
\* as a's
SpentBy(d, transactions, a) ==
    {p \in InputsOf(transactions) : Get(d, build_out_point_key(p)) = Some(a)}

\* the step is a forward step that committed its batch
Ingests == pc = "fetch" /\ db' # db

(***************************************************************************)
(* C26: the ingest of block H+1 writes, for each address the block         *)
(* touches, e:<addr>:<H+1> = (S minus spent) union added, S being the      *)
(* address's latest snapshot at a height <= H, and o:<p> = addr for each   *)
(* added outpoint p; no e: entry of an untouched address is written or     *)
(* changed.                                                                *)
(***************************************************************************)
C26_IngestSnapshots ==
    [][Ingests =>
        LET H == Height(db)
            transactions == Unwrap(get_block_by_number(H + 1)).transactions
        IN  \A a \in Addr :
            LET added == AddedBy(transactions, a)
                spent == SpentBy(db, transactions, a)
                S == load_latest_out_points(db, a, H)
            IN  IF added \cup spent # {}
                THEN /\ Get(db', build_eth_key(a, Some(H + 1))) =
                            Some((S \ spent) \cup added)
                     /\ \A p \in added :
                            Get(db', build_out_point_key(p)) = Some(a)
                ELSE \A h \in 0..MaxHeight + 1 :
                        Get(db', build_eth_key(a, Some(h))) =
                        Get(db, build_eth_key(a, Some(h)))]_vars

\* block 2 spent A's outpoint of block 1 and gave one to A and one to B, who
\* has no entry at height 1
C26_Witness ==
    /\ Height(db) = 2
    /\ Get(db, build_eth_key("A", Some(1))) = Some({<<1, 0>>})
    /\ Get(db, build_eth_key("A", Some(2))) = Some({<<2, 0>>})
    /\ Get(db, build_eth_key("B", Some(1))) = None
    /\ Get(db, build_eth_key("B", Some(2))) = Some({<<2, 1>>})
    /\ Get(db, build_out_point_key(<<2, 1>>)) = Some("B")

(***************************************************************************)
(* The receipts of one block, stated from the block alone.                 *)
(***************************************************************************)
\* the Ethereum transactions the witnesses of t carry, in witness order;
\* only a transaction with an output under the account lock is looked at
ParsedIn(t) ==
    IF \E o \in Range(txs[t].outputs) : o.lock.code_hash = CODE_HASH_LOCK
    THEN SelectSeq([i \in DOMAIN txs[t].witnesses |->
                        [witness |-> txs[t].witnesses[i], index |-> i - 1,
                         ckb_transaction_hash |-> t]],
                   LAMBDA x : /\ Len(x.witness) = 1
                              /\ from_raw(x.witness[1]).ok)
    ELSE <<>>

\* those of a block, in transaction order, then witness order
ParsedOf(transactions) ==
    Flatten([j \in DOMAIN transactions |-> ParsedIn(transactions[j])])

\* gas_price * gas_limit summed over the first k of them
RECURSIVE GasOfFirst(_, _)
GasOfFirst(parsed, k) ==
    IF k = 0 THEN <<>>
    ELSE BigAdd(GasOfFirst(parsed, k - 1),
                BigMul(parsed[k].witness[1].gas_price,
                       parsed[k].witness[1].gas_limit))

(***************************************************************************)
(* C27: the ingest of a block with n parsed Ethereum transactions stores   *)
(* exactly n receipts and lists them under b:<H>:r; the k-th of them, in   *)
(* transaction order and then witness order, has transaction_index k,      *)
(* counted from 1 in every block, and as cumulative_gas the sum of         *)
(* gas_price * gas_limit over the first k.                                 *)
(***************************************************************************)
C27_ReceiptsOfBlock ==
    [][Ingests =>
        LET H == Height(db) + 1
            parsed == ParsedOf(Unwrap(get_block_by_number(H)).transactions)
            listed == db'[build_block_receipt_hashes_key(H)]
        IN  /\ Cardinality(listed) = Len(parsed)
            /\ \A k \in DOMAIN parsed :
                LET tx_hash == hash(from_raw(parsed[k].witness[1]).val)
                    receipt == Get(db', build_receipt_key(tx_hash))
                IN  /\ tx_hash \in listed
                    /\ receipt # None
                    /\ Unwrap(receipt).block_number = H
                    /\ Unwrap(receipt).transaction_index = k
                    /\ Unwrap(receipt).cumulative_gas = GasOfFirst(parsed, k)]_vars

\* the indexer runs an iteration that finds the stored hash of its block
\* different from the chain's
ForkIteration == pc = "check" /\ ForkDetected /\ IndexerStep

(***************************************************************************)
(* C28: an iteration that detects a fork at height H only reverts and      *)
(* takes no forward step: it lowers the tip by exactly one, to             *)
(* (H-1, the value under b:<H-1>:h) when H > 1 and to no block when H = 1, *)
(* and starts the next iteration at the fork check again, so that a fork   *)
(* k blocks deep is unwound by k reverts in a row.                         *)
(***************************************************************************)
C28_ForkReverts ==
    [][ForkIteration =>
        LET H == Height(db)
        IN  /\ pc' = "check"
            /\ Get(db', BLOCK_KEY) =
                  IF H > 1
                  THEN Some(<<H - 1, db[build_block_hash_key(H - 1)]>>)
                  ELSE None
            /\ Height(db') = H - 1
            /\ \A h \in 1..H - 1 :
                  Get(db', build_block_hash_key(h)) =
                  Get(db, build_block_hash_key(h))]_vars

\* a key the revert of the last processed block reads is not in the store
RevertKeyMissing ==
    LET H == Height(db)
    IN  \/ ~Has(db, build_block_receipt_hashes_key(H))
        \/ ~Has(db, build_block_added_out_points_key(H))
        \/ \E p \in db[build_block_added_out_points_key(H)] :
                ~Has(db, build_out_point_key(p))
        \/ H > 1 /\ ~Has(db, build_block_hash_key(H - 1))

RevertErrors ==
    {"MalformedData: Receipt hash key does not exist!",
     "MalformedData: Added out point key does not exist!",
     "MalformedData: Out point key does not exist!",
     "MalformedData: Previous block hash key does not exist!"}

(***************************************************************************)
(* C29: when a key the revert needs is missing (b:<H>:r, b:<H>:a, the o:   *)
(* key of an added outpoint, or b:<H-1>:h), index() returns MalformedData  *)
(* and the loop ends: the store is as it was before the iteration, and the *)
(* indexer never writes again.                                             *)
(***************************************************************************)
C29_RevertMissingKey ==
    [][/\ (ForkIteration /\ RevertKeyMissing) =>
            /\ pc' = "aborted"
            /\ obs' # None /\ ~Unwrap(obs').ok
            /\ Unwrap(obs').val \in RevertErrors
            /\ db' = db
       /\ pc = "aborted" => pc' = "aborted" /\ db' = db]_vars

\* the revert of height 1 found the o: key of an outpoint of b:1:a missing
C29_Witness ==
    /\ pc = "aborted"
    /\ obs = Some(Err("MalformedData: Out point key does not exist!"))
    /\ ForkDetected
    /\ RevertKeyMissing

(***************************************************************************)
(* The indexer under fair scheduling: index() runs in a thread of its own  *)
(* (main.rs 25-26) and every iteration of its loop ends, so the loop takes *)
(* a step again and again until index() returns. Nothing is assumed of the *)
(* chain.                                                                  *)
(***************************************************************************)
IndexerLoop ==
    \/ IndexerRevert
    \/ IndexerCheckOk
    \/ IndexerIngest
    \/ IndexerSleep
    \/ IndexerAbort

\* A step of the loop is possible as long as index() has not returned: at
\* the fork check a revert, its error or the step to the fetch, at the fetch
\* an ingest, its error or the sleep.
LoopEnabled == pc # "aborted"

\* weak fairness of the loop, with LoopEnabled for ENABLED <<IndexerLoop>>_vars
LoopFair == []<>~LoopEnabled \/ []<><<IndexerLoop>>_vars

SpecLive ==
    /\ Init /\ [][Next]_vars
    /\ WF_vars(IndexerCheckOk) /\ WF_vars(IndexerSleep)
    /\ LoopFair

\* the indexer's block is the tip of the chain
AtTip == last_processed(db) = <<Len(chain), HashAt(chain, Len(chain))>>

(***************************************************************************)
(* C30: if the base chain stops changing, the indexer eventually has       *)
(* block = (T, hash of the chain's block at T) for the tip T and from then *)
(* on never changes the store.                                             *)
(***************************************************************************)
C30_ReachesTip ==
    <>[][chain' = chain]_vars => (<>[]AtTip /\ <>[][db' = db]_vars)

(***************************************************************************)
(* The indexer over blocks whose outputs carry locks of every shape: the   *)
(* two indexed code hashes and another one, with no args, one arg of 19,   *)
(* 20 or 21 bytes, and two args.                                           *)
(***************************************************************************)
MaxOutputHeight == 3     \* blocks of the chain
MaxOutputBlockTxs == 2   \* transactions per block

\* 1 creates an output of every shape; 2 spends A's cell and creates one
\* cell of B among outputs the index ignores; 3 creates only outputs the
\* index ignores; 4 spends an ignored output and creates a contract's cell.
OutputTxs ==
    <<[inputs |-> <<<<0, 0>>>>,
       outputs |-> <<Output(CODE_HASH_LOCK, <<"A">>, <<>>, BigOfNat(100)),
                     Output(CODE_HASH_CONTRACT_LOCK, <<"K0">>, <<>>, BigOfNat(100)),
                     Output("OTHER", <<"A">>, <<>>, BigOfNat(100)),
                     Output(CODE_HASH_LOCK, <<>>, <<>>, BigOfNat(100)),
                     Output(CODE_HASH_LOCK, <<"A", "B">>, <<>>, BigOfNat(100)),
                     Output(CODE_HASH_LOCK, <<"short">>, <<>>, BigOfNat(100)),
                     Output(CODE_HASH_CONTRACT_LOCK, <<"long">>, <<>>,
                            BigOfNat(100))>>,
       witnesses |-> <<>>, deps |-> <<>>],
      [inputs |-> <<<<1, 0>>>>,
       outputs |-> <<Output("OTHER", <<"B">>, <<>>, BigOfNat(30)),
                     Output(CODE_HASH_CONTRACT_LOCK, <<"A", "A">>, <<>>,
                            BigOfNat(30)),
                     Output(CODE_HASH_LOCK, <<"B">>, <<>>, BigOfNat(40))>>,
       witnesses |-> <<>>, deps |-> <<>>],
      [inputs |-> <<<<0, 1>>>>,
       outputs |-> <<Output("OTHER", <<"A">>, <<>>, BigOfNat(50)),
                     Output(CODE_HASH_CONTRACT_LOCK, <<>>, <<>>, BigOfNat(50)),
                     Output(CODE_HASH_LOCK, <<"long">>, <<>>, BigOfNat(50))>>,
       witnesses |-> <<>>, deps |-> <<>>],
      [inputs |-> <<<<1, 2>>>>,
       outputs |-> <<Output(CODE_HASH_CONTRACT_LOCK, <<"K1">>, <<>>,
                            BigOfNat(100))>>,
       witnesses |-> <<>>, deps |-> <<>>]>>

InitOutput ==
    /\ db = EmptyDb
    /\ chain = <<>>
    /\ txs = OutputTxs
    /\ pc = "check"
    /\ obs = None

MineOutput == MineUpTo(MaxOutputHeight, MaxOutputBlockTxs)

NextOutput ==
    \/ MineOutput
    \/ IndexerCheckOk
    \/ IndexerIngest
    \/ IndexerSleep

SpecOutput == InitOutput /\ [][NextOutput]_vars

\* the lock is one of the two indexed ones and names one 20-byte address
NamesAddress(output) ==
    /\ output.lock.code_hash \in {CODE_HASH_LOCK, CODE_HASH_CONTRACT_LOCK}
    /\ Len(output.lock.args) = 1
    /\ ArgLen(output.lock.args[1]) = 20

\* the outpoints of every e: entry at height h
SnapshotsAt(d, h) ==
    UNION {d[k] : k \in {x \in DOMAIN d : x[1] = "e" /\ x[3] = Some(h)}}

(***************************************************************************)
(* C31: the ingest of a block marks an output as added for an address      *)
(* (o: key and membership in the address's new snapshot) exactly when its  *)
(* lock code hash is CODE_HASH_LOCK or CODE_HASH_CONTRACT_LOCK and its     *)
(* args is one element of 20 bytes; any other output gets no o: key and is *)
(* in no snapshot, and a block of such outputs only that spends nothing    *)
(* the store knows writes no e: entry.                                     *)
(***************************************************************************)
C31_OnlyAddressLocks ==
    [][Ingests =>
        LET H == Height(db)
            transactions == Unwrap(get_block_by_number(H + 1)).transactions
        IN  /\ \A t \in Range(transactions) : \A i \in DOMAIN txs[t].outputs :
                LET output == txs[t].outputs[i]
                    p == <<t, i - 1>>
                IN  IF NamesAddress(output)
                    THEN /\ Get(db', build_out_point_key(p)) =
                                Some(output.lock.args[1])
                         /\ p \in db'[build_eth_key(output.lock.args[1],
                                                    Some(H + 1))]
                    ELSE /\ build_out_point_key(p) \notin DOMAIN db'
                         /\ p \notin SnapshotsAt(db', H + 1)
            /\ (/\ \A t \in Range(transactions) :
                     \A i \in DOMAIN txs[t].outputs :
                        ~NamesAddress(txs[t].outputs[i])
                /\ \A p \in InputsOf(transactions) :
                        build_out_point_key(p) \notin DOMAIN db)
               => {x \in DOMAIN db' : x[1] = "e"} =
                  {x \in DOMAIN db : x[1] = "e"}]_vars

\* block 1 held transaction 1 and block 2 transaction 3: of the ten outputs
\* only the cells of A and K0 are indexed, and block 2 wrote no snapshot
C31_Witness ==
    /\ Height(db) = 2
    /\ IndexedBody(db, 1) = <<1>>
    /\ IndexedBody(db, 2) = <<3>>
    /\ OutPointKeys(db) = {<<1, 0>>, <<1, 1>>}
    /\ SnapshotsAt(db, 1) = {<<1, 0>>, <<1, 1>>}
    /\ SnapshotsAt(db, 2) = {}

(***************************************************************************)
(* Account loads while the base chain grows and reorganises under the      *)
(* indexer: an outpoint of a snapshot may be live, dead or unknown to the  *)
(* node.                                                                   *)
(***************************************************************************)
MaxResolveHeight == 2    \* blocks of the chain

\* 1 gives A a fund cell and a main cell; 2 and 3 both spend the fund cell,
\* 2 for a new cell of A and 3 for a cell of B, so they are on different
\* branches.
ResolveTxs ==
    <<[inputs |-> <<<<0, 0>>>>,
       outputs |-> <<Output(CODE_HASH_LOCK, <<"A">>, <<>>, CKB(1000)),
                     Output(CODE_HASH_LOCK, <<"A">>, NormalMainData(0),
                            CKB(100))>>,
       witnesses |-> <<>>, deps |-> <<>>],
      [inputs |-> <<<<1, 0>>>>,
       outputs |-> <<Output(CODE_HASH_LOCK, <<"A">>, <<>>, CKB(900))>>,
       witnesses |-> <<>>, deps |-> <<>>],
      [inputs |-> <<<<1, 0>>>>,
       outputs |-> <<Output(CODE_HASH_LOCK, <<"B">>, <<>>, CKB(900))>>,
       witnesses |-> <<>>, deps |-> <<>>]>>

InitResolve ==
    /\ db = EmptyDb
    /\ chain = <<>>
    /\ txs = ResolveTxs
    /\ pc = "check"
    /\ obs = None

MineResolve == MineUpTo(MaxResolveHeight, MaxBlockTxs)

LoadResolve == LoadAccountOf({"A"})

NextResolve ==
    \/ MineResolve
    \/ Reorg
    \/ IndexerRevert
    \/ IndexerCheckOk
    \/ IndexerIngest
    \/ IndexerSleep
    \/ IndexerAbort
    \/ LoadResolve

SpecResolve == InitResolve /\ [][NextResolve]_vars

\* the step is a load of an account
Loads == obs' # obs /\ pc' = pc

\* the node's view of an outpoint, from the chain alone
IsLive(p) == p[1] \in Range(Flatten(chain)) /\ p \notin InputsOf(Flatten(chain))
IsDead(p) == p[1] \in Range(Flatten(chain)) /\ p \in InputsOf(Flatten(chain))

\* the load of r takes outpoint p
Taken(r, p) == IsLive(p) \/ (IsDead(p) /\ r.load_spent)

\* the cells of a loaded account
CellsOf(account) ==
    (IF account.main_cell = None THEN {} ELSE {Unwrap(account.main_cell)})
    \cup Range(account.fund_cells)

(***************************************************************************)
(* C32: load_account(addr, H, load_spent) takes each outpoint of the       *)
(* snapshot that is live, and each dead one from its creating transaction  *)
(* when load_spent is true; if any outpoint is dead with load_spent false  *)
(* or unknown, the load fails with InvalidOutPoint and returns no account. *)
(* So the load at the tip with load_spent false fails with InvalidOutPoint *)
(* while the chain has spent a cell of the snapshot.                       *)
(***************************************************************************)
C32_ResolveOrFail ==
    [][Loads =>
        LET r == Unwrap(obs')
            S == load_latest_out_points(db, r.eth_address, r.block_number)
        IN  /\ (\E p \in S : ~Taken(r, p)) =>
                    r.result = Err("InvalidOutPoint")
            /\ (\A p \in S : Taken(r, p)) =>
                    /\ r.result # Err("InvalidOutPoint")
                    /\ r.result.ok =>
                          CellsOf(Unwrap(r.result.val)) =
                          {EthCell(CellAt(p), p) : p \in S}
            /\ (/\ r.block_number = Height(db)
                /\ ~r.load_spent
                /\ \E p \in S : IsDead(p)) =>
                    r.result = Err("InvalidOutPoint")]_vars

\* the chain has spent A's cell <<1, 0>>, the indexer is still at block 1,
\* and A's account was loaded at the tip without spent cells
C32_Witness ==
    /\ obs # None
    /\ Unwrap(obs).op = "load_account"
    /\ Unwrap(obs).eth_address = "A"
    /\ Unwrap(obs).block_number = Height(db)
    /\ ~Unwrap(obs).load_spent
    /\ Height(db) = 1
    /\ <<1, 0>> \in load_latest_out_points(db, "A", 1)
    /\ IsDead(<<1, 0>>)
    /\ Unwrap(obs).result = Err("InvalidOutPoint")

\* the indexer holds a block 1 of an abandoned branch: A's cell <<2, 0>> is
\* unknown to the node, and a load with spent cells has failed
C32_WitnessUnknown ==
    /\ obs # None
    /\ pc # "aborted"
    /\ Unwrap(obs).eth_address = "A"
    /\ Unwrap(obs).block_number = 1
    /\ Unwrap(obs).load_spent
    /\ <<2, 0>> \in load_latest_out_points(db, "A", 1)
    /\ ~IsLive(<<2, 0>>) /\ ~IsDead(<<2, 0>>)
    /\ Unwrap(obs).result = Err("InvalidOutPoint")

(***************************************************************************)
(* The transaction of a contract call.                                     *)
(***************************************************************************)
\* the step is a call of eth_sendRawTransaction that built a contract call
BuiltCall == IsSend /\ Sent.case = "call_contract" /\ Sent.run.ok

\* {code, storage} in the callee's prior main cell
PriorData ==
    deserialize_contract_data(Tail(CellAt(CalleeMain).data)).val

\* {code, storage} after the execution: the code as it was, the storage
\* with the slots the execution wrote
PostData ==
    [code |-> PriorData.code,
     storage |-> [k \in DOMAIN PriorData.storage \cup DOMAIN Sent.evm.writes |->
                    IF k \in DOMAIN Sent.evm.writes THEN Sent.evm.writes[k]
                    ELSE PriorData.storage[k]]]

(***************************************************************************)
(* C33: the transaction built for a contract call has the callee's prior   *)
(* main cell as its last input, with an empty witness, and its target      *)
(* output (the second) is under the contract lock with args [callee        *)
(* address], has data 0x02 followed by the serialized {code, storage}      *)
(* after the execution, and capacity floor(tx.value / 10^10) + the prior   *)
(* main cell's capacity.                                                   *)
(***************************************************************************)
C33_ContractCallCell ==
    [][BuiltCall =>
        LET t == Sent.run.val
            n == Len(t.inputs)
            target == t.outputs[2]
            prior == CellAt(CalleeMain).capacity
        IN  /\ n >= 2
            /\ t.inputs[n] = CalleeMain
            /\ CalleeMain \notin {t.inputs[i] : i \in 1..n - 1}
            /\ Len(t.witnesses) = n
            /\ t.witnesses[n] = <<>>
            /\ target.lock.code_hash = CODE_HASH_CONTRACT_LOCK
            /\ target.lock.args = <<Unwrap(Sent.raw.to)>>
            /\ target.data = <<2>> \o serialize_contract_data(PostData)
            /\ deserialize_contract_data(Tail(target.data)) = Ok(PostData)
            /\ BigLeq(prior, target.capacity)
            /\ IsQuotient(BigSub(target.capacity, prior), Sent.raw.value)]_vars

\* K0, deployed with 7 in slot 1 and 100 CKB, was called with a write of 5
\* to slot 2: the new cell holds both slots and the 100 CKB
C33_Witness ==
    /\ obs # None
    /\ Unwrap(obs).op = "send_raw_transaction"
    /\ Unwrap(obs).case = "call_contract"
    /\ Unwrap(obs).run.ok
    /\ Unwrap(obs).run.val.outputs[2].capacity = CKB(100)
    /\ deserialize_contract_data(Tail(Unwrap(obs).run.val.outputs[2].data)).val.storage
            = (1 :> 7 @@ 2 :> 5)

(***************************************************************************)
(* Contract creations under every outcome of the initializer.  A, funded   *)
(* with one cell, signs a creation with data, one without data and one     *)
(* whose value is too small for the contract's cell.                       *)
(***************************************************************************)
MaxCreateHeight == 2   \* blocks of the chain
MaxCreateSent == 1     \* transactions the runner sends

CreateRaws ==
    {RawTx(0, <<1>>, BigOfNat(21000), None, Wei(CKB(100)), Some(<<1, 7>>), "A"),
     RawTx(0, <<1>>, BigOfNat(21000), None, Wei(CKB(100)), None, "A"),
     RawTx(1, <<1>>, BigOfNat(21000), None, Wei(CKB(1)), Some(<<1, 7>>), "A")}

\* NeedsReturn with apply_state (return) and without (revert), Known, a trap
\* and a vm error; each has written 7 to slot 1 when it ends
CreateEvms ==
    {[EvmReturn EXCEPT !.kind = kind] :
        kind \in {"return", "revert", "known", "trap", "error"}}

InitCreate ==
    /\ db = EmptyDb
    /\ chain = <<>>
    /\ txs = <<Funding>>
    /\ pc = "check"
    /\ obs = None

MineCreate == MineUpTo(MaxCreateHeight, 1)

SendRawCreate == SendRawTransaction(CreateRaws, CreateEvms, 1 + MaxCreateSent)

NextCreate ==
    \/ MineCreate
    \/ IndexerCheckOk
    \/ IndexerIngest
    \/ IndexerSleep
    \/ SendRawCreate

SpecCreate == InitCreate /\ [][NextCreate]_vars

\* the step is a call of eth_sendRawTransaction that reached create_contract
Creates == IsSend /\ Sent.case = "create_contract"

(***************************************************************************)
(* C34: a contract creation builds a transaction only when tx.data is      *)
(* there and the EVM ends with NeedsReturn and apply_state = true.  Then   *)
(* the target output is under the contract lock with args [the address     *)
(* derived from (from, nonce)], its data is 0x02 followed by the           *)
(* serialized {code = the returned data, storage = the storage the         *)
(* initializer left}, and its capacity is floor(tx.value / 10^10).  For    *)
(* Known, apply_state = false, a trap, a vm error or missing data the      *)
(* creation returns an error and no transaction reaches the node.          *)
(***************************************************************************)
C34_CreationOutcome ==
    [][Creates =>
        /\ Sent.run.ok =>
              LET target == Sent.run.val.outputs[2]
              IN  /\ Sent.raw.data # None
                  /\ Sent.evm.kind = "return"
                  /\ target.lock.code_hash = CODE_HASH_CONTRACT_LOCK
                  /\ target.lock.args =
                        <<ContractAddress(Sent.raw.from, Sent.raw.nonce)>>
                  /\ target.data =
                        <<2>> \o serialize_contract_data(
                                    [code |-> Sent.evm.data,
                                     storage |-> Sent.evm.writes])
                  /\ IsQuotient(target.capacity, Sent.raw.value)
        /\ (Sent.raw.data = None \/ Sent.evm.kind # "return") =>
              /\ ~Sent.run.ok
              /\ ~Sent.result.ok
              /\ Sent.sent = None
              /\ txs' = txs]_vars

\* A's creation with nonce 0 and 100 CKB was built: K0's cell holds the
\* returned code and the 7 the initializer wrote to slot 1
C34_Witness ==
    /\ obs # None
    /\ Unwrap(obs).op = "send_raw_transaction"
    /\ Unwrap(obs).case = "create_contract"
    /\ Unwrap(obs).evm.kind = "return"
    /\ Unwrap(obs).run.ok
    /\ Unwrap(obs).run.val.outputs[2] =
            Output(CODE_HASH_CONTRACT_LOCK, <<"K0">>,
                   ContractMainData([code |-> <<96>>, storage |-> <<7>>]),
                   CKB(100))
    /\ Len(txs) = 2

(***************************************************************************)
(* The indexed chain: the blocks the store holds at heights 1..height.     *)
(***************************************************************************)
\* the transactions of the indexed blocks up to block.height, in order
IndexedTxs(d) ==
    Flatten([k \in 1..Height(d) |-> IndexedBody(d, k)])

(***************************************************************************)
(* C35: every outpoint in the latest snapshot of an address at             *)
(* block.height is unspent on the indexed chain: no input of an indexed    *)
(* block at a height <= block.height consumes it, also when the outpoint   *)
(* is created and spent by two transactions of one block.                  *)
(***************************************************************************)
C35_SnapshotUnspent ==
    \A a \in Addr :
        \A p \in LatestSnapshot(db, a, Height(db)) :
            p \notin InputsOf(IndexedTxs(db))

(***************************************************************************)
(* C36: the indexed chain is one branch of the base chain: in every        *)
(* reachable state, for every height k below block.height the stored       *)
(* b:<k>:h is the hash of the parent of the block stored at k + 1, also    *)
(* when the base chain reorganises between the header check at H and the   *)
(* fetch of block H + 1.  (A block's hash is the chain up to it, so the    *)
(* parent's hash is the hash without its last block.)                      *)
(***************************************************************************)
C36_OneBranch ==
    \A k \in 1..Height(db) - 1 :
        /\ Has(db, build_block_hash_key(k))
        /\ Has(db, build_block_hash_key(k + 1))
        /\ db[build_block_hash_key(k)] =
                SubSeq(db[build_block_hash_key(k + 1)], 1, k)

(***************************************************************************)
(* The indexer over a chain that carries the same Ethereum transaction in  *)
(* the witnesses of two transactions, and reorganises: 1 gives A two       *)
(* cells, 2 and 3 each spend one of them and carry E1.                     *)
(***************************************************************************)
MaxReplayHeight == 2   \* blocks of the chain

ReplayTxs ==
    <<[inputs |-> <<<<0, 0>>>>,
       outputs |-> <<Output(CODE_HASH_LOCK, <<"A">>, <<>>, BigOfNat(100)),
                     Output(CODE_HASH_LOCK, <<"A">>, <<>>, BigOfNat(100))>>,
       witnesses |-> <<<<>>>>, deps |-> <<>>],
      WitnessTx(<<1, 0>>, CODE_HASH_LOCK, <<<<E1>>>>),
      WitnessTx(<<1, 1>>, CODE_HASH_LOCK, <<<<E1>>>>)>>

InitReplay ==
    /\ db = EmptyDb
    /\ chain = <<>>
    /\ txs = ReplayTxs
    /\ pc = "check"
    /\ obs = None

MineReplay == MineUpTo(MaxReplayHeight, MaxBlockTxs)

NextReplay ==
    \/ MineReplay
    \/ Reorg
    \/ IndexerRevert
    \/ IndexerCheckOk
    \/ IndexerIngest
    \/ IndexerSleep
    \/ IndexerAbort

SpecReplay == InitReplay /\ [][NextReplay]_vars

\* the hashes the receipt lists of the indexed heights name
ListedReceipts(d) ==
    UNION {d[build_block_receipt_hashes_key(k)] :
             k \in {j \in 1..Height(d) :
                      Has(d, build_block_receipt_hashes_key(j))}}

(***************************************************************************)
(* C37: a key r:<hash> exists if and only if hash is in the receipt list   *)
(* b:<k>:r of an indexed height k <= block.height, and the block_number    *)
(* it stores is such a k; also when one raw Ethereum transaction is a      *)
(* witness of two transactions, in one block or in two, and the later      *)
(* block is reverted.                                                      *)
(***************************************************************************)
C37_ReceiptKeysListed ==
    /\ ReceiptKeys(db) = ListedReceipts(db)
    /\ \A h \in ReceiptKeys(db) :
          LET k == db[build_receipt_key(h)].block_number
          IN  /\ k \in 1..Height(db)
              /\ Has(db, build_block_receipt_hashes_key(k))
              /\ h \in db[build_block_receipt_hashes_key(k)]

(***************************************************************************)
(* The runner for a sender without cells: B, which has no cell until the   *)
(* chain includes transaction 2 of AccountTxs, signs transfers to A, calls *)
(* of K0 and contract creations, with and without value, paying fees of    *)
(* 21000 wei (0 shannons) or of 21000 shannons.                            *)
(***************************************************************************)
MaxBareHeight == 2   \* blocks of the chain
MaxBareSent == 1     \* transactions the runner sends

BareRaws ==
    {RawTx(0, gas_price, BigOfNat(21000), to, value, data, "B") :
        gas_price \in {<<1>>, SHANNON_TO_WEI},
        to \in {Some("A"), Some("K0"), None},
        value \in {<<>>, Wei(CKB(100))},
        data \in {Some(<<1>>)}}

MineBare == MineUpTo(MaxBareHeight, 1)

SendRawBare ==
    SendRawTransaction(BareRaws, {EvmReturn}, Len(AccountTxs) + MaxBareSent)

NextBare ==
    \/ MineBare
    \/ IndexerCheckOk
    \/ IndexerIngest
    \/ IndexerSleep
    \/ SendRawBare

SpecBare == InitAccount /\ [][NextBare]_vars

\* the sender of the step's transaction has no cell at block_number
SenderHasNoCells ==
    load_latest_out_points(db, Sent.raw.from, Height(db)) = {}

(***************************************************************************)
(* C38: for a sender that has no cells at block_number, Runner.run returns *)
(* an error value in every dispatch case (transfer, call, create), also    *)
(* when fees and value convert to 0 capacity: it does not abort and no     *)
(* transaction is built or sent.                                           *)
(***************************************************************************)
C38_NoCellsIsAnError ==
    [][(IsSend /\ SenderHasNoCells) =>
        /\ ~Sent.run.ok
        /\ ~Aborted(Sent.run)
        /\ Sent.sent = None
        /\ txs' = txs]_vars

(***************************************************************************)
(* C39: in every store the indexer produces, for every height k in         *)
(* 1..block.height the keys b:<k>:h, b:<k>:r, b:<k>:a and b:<k>:s exist    *)
(* and every outpoint listed in b:<k>:a has an o: key, so the revert of    *)
(* the tip can be built: it does not fail with a missing-key MalformedData *)
(* error.                                                                  *)
(***************************************************************************)
C39_RevertKeysPresent ==
    /\ \A k \in 1..Height(db) :
          /\ Has(db, build_block_hash_key(k))
          /\ Has(db, build_block_receipt_hashes_key(k))
          /\ Has(db, build_block_added_out_points_key(k))
          /\ Has(db, build_block_spent_out_points_key(k))
          /\ \A p \in db[build_block_added_out_points_key(k)] :
                Has(db, build_out_point_key(p))
    /\ Height(db) >= 1 => RevertBatch(db).ok

====
